---- MODULE Spec2Model ----
(***************************************************************************)
(* Snapshot / tree derivation engine of the gitstack backend.              *)
(*                                                                         *)
(* The relational store is modelled as three tables (snapshots,            *)
(* snapshot_files, branches) reached through pooled connections, each with *)
(* its own transaction state; the blob store as a map from storage key to  *)
(* bytes.  Every request handler is a process: one step per awaited call   *)
(* (a statement on the connection, or a blob-store call) together with the *)
(* synchronous code that follows it up to the next await.                  *)
(***************************************************************************)
EXTENDS Integers, Sequences, FiniteSets, TLC

(***************************************************************************)
(* Bounds of the model.                                                    *)
(***************************************************************************)
MaxSnap == 2        \* snapshot ids handed out: 1..MaxSnap
MaxClock == 3       \* the server clock is read while it shows less
MaxReq == 2         \* request slots (concurrently running handlers)
MaxConn == 2        \* connections of the pool

Reqs == 1..MaxReq
Conns == 1..MaxConn

(***************************************************************************)
(* Values.                                                                 *)
(***************************************************************************)
NULL == 0                       \* SQL NULL / JS null for a snapshot id
MISSING == "<undefined>"        \* a request field that was not sent
fileMode == 644

ProjectId == "p1"
UserId == "u1"

\* Paths are strings, modelled as sequences of characters; ".gitkeep" is one
\* slash-free token.
SLASH == "/"
GITKEEP == <<".gitkeep">>
P_f == <<"f">>
P_a == <<"a">>
P_ab == <<"a", "/", "b">>
P_abS == <<"a", "/", "b", "/">>
P_abf == <<"a", "/", "b", "/", "f">>
P_abcd == <<"a", "/", "b", "/", "c", "/", "d">>
P_abce == <<"a", "/", "b", "c", "/", "e">>

\* String.prototype.startsWith
startsWith(s, prefix) ==
    /\ Len(prefix) <= Len(s)
    /\ SubSeq(s, 1, Len(prefix)) = prefix

\* String.prototype.endsWith
endsWith(s, suffix) ==
    /\ Len(suffix) <= Len(s)
    /\ SubSeq(s, Len(s) - Len(suffix) + 1, Len(s)) = suffix

\* path.normalize restricted to what the modelled paths need: runs of
\* separators collapse to one.
RECURSIVE normalize(_)
normalize(s) ==
    IF Len(s) < 2 THEN s
    ELSE IF s[1] = SLASH /\ s[2] = SLASH THEN normalize(Tail(s))
         ELSE <<s[1]>> \o normalize(Tail(s))

\* path.join(a, b): the non-empty segments joined by "/" and normalized.
pathJoin(a, b) ==
    IF a = <<>> THEN normalize(b)
    ELSE IF b = <<>> THEN normalize(a)
    ELSE normalize(a \o <<SLASH>> \o b)

\* Buffer.from(content, 'base64'): the decoded bytes.
Base64Decode(s) ==
    CASE s = "" -> ""
      [] s = "aGVsbG8=" -> "hello"
      [] s = "d29ybGQ=" -> "world"

\* Buffer.prototype.toString('base64')
Base64Encode(b) ==
    CASE b = "" -> ""
      [] b = "hello" -> "aGVsbG8="
      [] b = "world" -> "d29ybGQ="

\* crypto.createHash('sha256').update(buf).digest('hex') (leading hex digits)
sha256(b) ==
    CASE b = "" -> "e3b0c442"
      [] b = "hello" -> "2cf24dba"
      [] b = "world" -> "486ea462"

\* Buffer.prototype.byteLength
byteLength(b) ==
    CASE b = "" -> 0
      [] b = "hello" -> 5
      [] b = "world" -> 5

(***************************************************************************)
(* The relational store.                                                   *)
(***************************************************************************)
VARIABLES
    db,         \* committed tables: snapshots, snapshot_files, branches, users
    conn,       \* pool connections: checked out?, transaction state, writes
    storage,    \* blob store: storage key -> bytes
    req,        \* request slots: the running handlers and their locals
    nextId,     \* next snapshot id the store generates
    now,        \* last reading of the server clock
    stray       \* per-file tasks of createSnapshot that outlive their handler

vars == <<db, conn, storage, req, nextId, now, stray>>

EmptyDb ==
    [snapshots |-> {}, snapshot_files |-> <<>>, branches |-> {}, users |-> {},
     cli_auth_requests |-> {}]

\* One write of a transaction, applied to the tables.
ApplyWrite(t, w) ==
    CASE w.op = "insSnapshot" ->
            [t EXCEPT !.snapshots = @ \cup {w.row}]
      [] w.op = "insFile" ->
            [t EXCEPT !.snapshot_files = Append(@, w.row)]
      [] w.op = "insBranch" ->
            [t EXCEPT !.branches = @ \cup {w.row}]
      [] w.op = "setHead" ->
            [t EXCEPT !.branches =
                {IF b.project_id = w.project_id /\ b.name = w.name
                    THEN [b EXCEPT !.head_snapshot_id = w.head_snapshot_id]
                    ELSE b : b \in @}]
      [] w.op = "insUser" ->
            [t EXCEPT !.users = @ \cup {w.row}]
      [] w.op = "insCliAuthRequest" ->
            [t EXCEPT !.cli_auth_requests = @ \cup {w.row}]
      [] w.op = "updCliAuthRequest" ->
            [t EXCEPT !.cli_auth_requests =
                {IF x.id = w.row.id THEN w.row ELSE x : x \in @}]
      [] w.op = "delSnapshot" ->
            \* ON DELETE CASCADE removes the snapshot's file rows
            [t EXCEPT !.snapshots = {s \in @ : s.id # w.id},
                      !.snapshot_files = SelectSeq(@, LAMBDA f : f.snapshot_id # w.id)]

RECURSIVE ApplyWrites(_, _)
ApplyWrites(t, ws) ==
    IF ws = <<>> THEN t ELSE ApplyWrites(ApplyWrite(t, Head(ws)), Tail(ws))

\* What a statement on connection c sees: the committed rows and the
\* connection's own uncommitted writes (READ COMMITTED).
Visible(c) == ApplyWrites(db, conn[c].w)

IdleConn == [busy |-> FALSE, tx |-> "none", w |-> <<>>]

\* Tables and connections after a statement on c succeeded with writes ws
\* (<<>> for a read): inside a transaction the writes stay with the
\* connection until COMMIT, outside one they are applied at once.
DbAfterOk(c, ws) ==
    IF conn[c].tx = "open" THEN db ELSE ApplyWrites(db, ws)

ConnAfterOk(c, ws) ==
    IF conn[c].tx = "open" THEN [conn EXCEPT ![c].w = @ \o ws] ELSE conn

\* Connections after the store answered a statement on c with an error: an
\* open transaction becomes aborted.
ConnAfterErr(c) ==
    [conn EXCEPT ![c].tx = IF @ = "open" THEN "aborted" ELSE @]

\* client.release()
release(cn, c) == [cn EXCEPT ![c].busy = FALSE]

\* The view latest_project_snapshot: the ids of the project's snapshots with
\* the greatest timestamp (one of them is returned on a tie).
latest_project_snapshot(t, projectId) ==
    {s.id : s \in {x \in t.snapshots :
                    /\ x.project_id = projectId
                    /\ \A y \in t.snapshots :
                          y.project_id = projectId => y.timestamp <= x.timestamp}}

\* SELECT head_snapshot_id FROM branches WHERE project_id = $1 AND name = $2
selectBranch(t, projectId, branch) ==
    {b \in t.branches : b.project_id = projectId /\ b.name = branch}

\* getFilesInSnapshot: SELECT path, hash, size, mode FROM snapshot_files
\* WHERE snapshot_id = $1
getFilesInSnapshot(t, snapshotId) ==
    LET rows == SelectSeq(t.snapshot_files, LAMBDA f : f.snapshot_id = snapshotId)
    IN [i \in 1..Len(rows) |->
            [path |-> rows[i].path, hash |-> rows[i].hash,
             size |-> rows[i].size, mode |-> rows[i].mode]]

(***************************************************************************)
(* The synchronous computations of the mutation handlers.                  *)
(***************************************************************************)
\* !x for a string field of the request body
Falsy(x) == x \in {MISSING, ""}

createFile_newFile(filePath, content) ==
    LET contentBuffer == Base64Decode(content)
    IN [path |-> filePath, hash |-> sha256(contentBuffer),
        size |-> byteLength(contentBuffer), mode |-> fileMode]

\* createFile that appends the new row without filtering the path out.
createFile_allFiles_noFilter(existingFiles, filePath, content) ==
    Append(existingFiles, createFile_newFile(filePath, content))

createFile_allFiles(existingFiles, filePath, content) ==
    LET filteredFiles == SelectSeq(existingFiles, LAMBDA f : f.path # filePath)
    IN Append(filteredFiles, createFile_newFile(filePath, content))

createFolder_newGitkeepFile(folderPath) ==
    LET gitkeepContent == ""
    IN [path |-> pathJoin(folderPath, GITKEEP), hash |-> sha256(gitkeepContent),
        size |-> 0, mode |-> fileMode]

createFolder_allFiles(existingFiles, folderPath) ==
    LET gitkeepPath == pathJoin(folderPath, GITKEEP)
        filteredFiles == SelectSeq(existingFiles, LAMBDA f : f.path # gitkeepPath)
    IN Append(filteredFiles, createFolder_newGitkeepFile(folderPath))

deleteFile_updatedFiles(existingFiles, filePath) ==
    SelectSeq(existingFiles, LAMBDA f : f.path # filePath)

\* deleteFolder that matches the folder path itself as the prefix.
deleteFolder_folderPrefix_noSlash(folderPath) == folderPath

deleteFolder_folderPrefix(folderPath) ==
    IF endsWith(folderPath, <<SLASH>>) THEN folderPath ELSE folderPath \o <<SLASH>>

deleteFolder_updatedFiles(existingFiles, folderPath) ==
    SelectSeq(existingFiles,
              LAMBDA f : ~startsWith(f.path, deleteFolder_folderPrefix(folderPath)))

\* The storage key of the interactive edit path: `${projectId}/${hash}`
uploadKey(projectId, hash) == <<projectId, hash>>

\* The storage key getBlob downloads from: `${projectId}/${snapshotId}/${hash}`
downloadKey(projectId, snapshotId, hash) == <<projectId, ToString(snapshotId), hash>>

(***************************************************************************)
(* Requests.                                                               *)
(***************************************************************************)
NoRes == [status |-> 0, body |-> <<>>]     \* no response sent (yet)

IdleReq ==
    [kind |-> "none", pc |-> "idle",
     branch |-> MISSING, path |-> <<>>, content |-> MISSING, userId |-> MISSING,
     client |-> 0, currentSnapshotId |-> NULL, existingFiles |-> <<>>,
     allFiles |-> <<>>, ts |-> 0, newSnapshotId |-> NULL, todo |-> <<>>,
     files |-> <<>>, timestamp |-> 0, tasks |-> <<>>, queue |-> <<>>,
     id |-> NULL, file |-> <<>>,
     clerkUserId |-> MISSING, email |-> MISSING, user |-> NULL,
     cliAuthToken |-> MISSING, createdAt |-> MISSING, pgUserId |-> MISSING,
     clerkSessionToken |-> MISSING,
     uploadError |-> FALSE,                 \* the upload returned an error
     error |-> "none",                      \* the await whose rejection was caught
     res |-> NoRes,
     pre |-> EmptyDb]                       \* the tables when the request arrived

CreateKinds == {"createFile", "createFolder"}
DeleteKinds == {"deleteFile", "deleteFolder"}
MutationKinds == CreateKinds \cup DeleteKinds
\* the handlers whose catch block issues ROLLBACK
RollbackKinds == MutationKinds \cup {"createSnapshot"}

\* Inputs of the requests, <<branch, path, content, userId>>: valid ones
\* and, for each handler, one request that lacks a required field.
FilePaths == {P_abf, P_abce}

CreateFileArgs ==
    {<<"main", P_abf, "aGVsbG8=", UserId>>, <<"main", P_abf, "d29ybGQ=", UserId>>,
     <<"main", P_abce, "d29ybGQ=", UserId>>, <<"main", P_abf, MISSING, UserId>>}

CreateFolderArgs ==
    {<<"main", P_ab, MISSING, UserId>>, <<"main", <<>>, MISSING, UserId>>}

DeleteFileArgs ==
    ({"main"} \X FilePaths \X {MISSING} \X {UserId})
    \cup {<<"main", P_abf, MISSING, MISSING>>}

DeleteFolderArgs ==
    ({"main"} \X {P_a, P_ab, P_abS} \X {MISSING} \X {UserId})
    \cup {<<MISSING, P_ab, MISSING, UserId>>}

\* No handler runs in slot r.
Free(r) == req[r].pc \in {"idle", "done"}

\* Date.now(), the readings request r can get.  The clock does not go back.
\* Between the readings of two requests handled one after the other lie
\* several round trips to the stores, so the later one is greater; two
\* requests under way at once can read the same millisecond.
DateNow(r) ==
    IF \E r2 \in Reqs \ {r} : ~Free(r2) THEN {now, now + 1} ELSE {now + 1}

\* The awaited statement of request r succeeded with writes ws; the handler
\* continues as rr (and has released its client when rr is finished).
Proceed(r, rr, ws) ==
    LET c == req[r].client
    IN /\ conn[c].tx # "aborted"
       /\ db' = DbAfterOk(c, ws)
       /\ conn' = IF rr.pc = "done" THEN release(ConnAfterOk(c, ws), c)
                                    ELSE ConnAfterOk(c, ws)
       /\ req' = [req EXCEPT ![r] = rr]

\* The awaited statement of request r was rejected: control passes to the
\* handler's catch block, which issues ROLLBACK or answers 500 at once.
Reject(r) ==
    LET c == req[r].client
    IN /\ db' = db
       /\ IF req[r].kind \in RollbackKinds
             THEN /\ conn' = ConnAfterErr(c)
                  /\ req' = [req EXCEPT ![r].pc = "catch", ![r].error = req[r].pc]
             ELSE /\ conn' = release(ConnAfterErr(c), c)
                  /\ req' = [req EXCEPT ![r].pc = "done", ![r].error = req[r].pc,
                                        ![r].res = [status |-> 500, body |-> <<>>]]

\* resolveSnapshotId that never looks at the branch.
resolveSnapshotId_entry_ignoreBranch(branch) == "resolveLatest"

\* resolveSnapshotId: the branch query is issued only for a branch name
resolveSnapshotId_entry(branch) ==
    IF Falsy(branch) THEN "resolveLatest" ELSE "resolveBranch"

\* What the handler awaits first on its client.
firstAwait(q) ==
    CASE q.kind \in RollbackKinds -> "BEGIN"
      [] q.kind = "getBranches" -> "select"
      [] q.kind \in {"getBlob", "getTree"} -> resolveSnapshotId_entry(q.branch)
      [] q.kind = "deleteSnapshot" -> "selectFiles"
      [] q.kind = "createOrGetUser" -> "selectUser"
      [] q.kind = "createCliAuthRequest" -> "selectCliAuthRequest"
      [] q.kind = "completeCliAuthRequest" -> "updateCliAuthRequest"

\* const client = await pool.connect(): waits for an idle client; the pool
\* hands out the first idle one.
connect(r) ==
    /\ req[r].pc = "connect"
    /\ \E c \in Conns :
          /\ ~conn[c].busy
          /\ \A c2 \in Conns : c2 < c => conn[c2].busy
          /\ conn' = [conn EXCEPT ![c].busy = TRUE]
          /\ req' = [req EXCEPT ![r].client = c, ![r].pc = firstAwait(req[r])]
    /\ UNCHANGED <<db, storage, nextId, now, stray>>

\* What becomes of a request whose handler's promise is rejected: a router
\* that does not look at the promise leaves the request without response, one
\* that forwards the rejection has the error handler of server.ts answer 500.
\* Which router the build has is not fixed by the sources.
unhandled == {NoRes, [status |-> 500, body |-> <<>>]}

\* await pool.connect() is rejected (the store cannot be reached): the call
\* stands before the try block, so the handler's promise is rejected.
connect_rejected(r) ==
    /\ req[r].pc = "connect"
    /\ \E res \in unhandled :
          req' = [req EXCEPT ![r].pc = "done", ![r].error = "connect", ![r].res = res]
    /\ UNCHANGED <<db, conn, storage, nextId, now, stray>>

\* A handler that does not issue BEGIN: its statements commit one by one.
begin_noTransaction(r) ==
    LET c == req[r].client
    IN /\ req[r].pc = "BEGIN"
       /\ \/ /\ conn[c].tx # "aborted"
             /\ conn' = conn
             /\ db' = db
             /\ req' = [req EXCEPT ![r].pc =
                            CASE req[r].kind \in MutationKinds ->
                                    resolveSnapshotId_entry(req[r].branch)
                              [] req[r].kind = "createSnapshot" -> "insertSnapshot"
                              [] req[r].kind = "deleteSnapshot" -> "DELETE"]
          \/ Reject(r)
       /\ UNCHANGED <<storage, nextId, now, stray>>

\* await client.query('BEGIN'), then resolveSnapshotId is entered
begin(r) ==
    LET c == req[r].client
    IN /\ req[r].pc = "BEGIN"
       /\ \/ /\ conn[c].tx # "aborted"
             /\ conn' = [conn EXCEPT ![c].tx = "open"]
             /\ db' = db
             /\ req' = [req EXCEPT ![r].pc =
                            CASE req[r].kind \in MutationKinds ->
                                    resolveSnapshotId_entry(req[r].branch)
                              [] req[r].kind = "createSnapshot" -> "insertSnapshot"
                              [] req[r].kind = "deleteSnapshot" -> "DELETE"]
          \/ Reject(r)
       /\ UNCHANGED <<storage, nextId, now, stray>>

\* getTree that, like getBlob, answers 404 when no snapshot resolves.
getTree_afterResolve_notFound(q, id) ==
    IF id # NULL
       THEN [q EXCEPT !.currentSnapshotId = id, !.pc = "selectTree"]
       ELSE [q EXCEPT !.currentSnapshotId = id, !.pc = "done",
                      !.res = [status |-> 404, body |-> <<>>]]

\* getTree: if (!snapshotId) return res.status(200).json([])
getTree_afterResolve(q, id) ==
    IF id # NULL
       THEN [q EXCEPT !.currentSnapshotId = id, !.pc = "selectTree"]
       ELSE [q EXCEPT !.currentSnapshotId = id, !.pc = "done",
                      !.res = [status |-> 200, body |-> <<>>]]

\* Delete handlers that, like the create handlers, go on from an empty file
\* list when no snapshot resolves.
afterResolve_noNullCheck(q, id) ==
    CASE q.kind \in CreateKinds ->
            IF id # NULL
               THEN [q EXCEPT !.currentSnapshotId = id, !.pc = "getFiles"]
               ELSE [q EXCEPT !.currentSnapshotId = id, !.pc = "upload",
                              !.allFiles = IF q.kind = "createFile"
                                              THEN createFile_allFiles(<<>>, q.path, q.content)
                                              ELSE createFolder_allFiles(<<>>, q.path)]
      [] q.kind \in DeleteKinds ->
            IF id # NULL
               THEN [q EXCEPT !.currentSnapshotId = id, !.pc = "getFiles"]
               ELSE [q EXCEPT !.currentSnapshotId = id, !.allFiles = <<>>,
                              !.pc = "insertSnapshot"]
      [] q.kind = "getBlob" ->
            IF id # NULL
               THEN [q EXCEPT !.currentSnapshotId = id, !.pc = "selectFile"]
               ELSE [q EXCEPT !.currentSnapshotId = id, !.pc = "done",
                              !.res = [status |-> 404, body |-> <<>>]]
      [] q.kind = "getTree" -> getTree_afterResolve(q, id)

\* The handler after resolveSnapshotId returned id.
afterResolve(q, id) ==
    CASE q.kind \in CreateKinds ->
            IF id # NULL
               THEN [q EXCEPT !.currentSnapshotId = id, !.pc = "getFiles"]
               ELSE [q EXCEPT !.currentSnapshotId = id, !.pc = "upload",
                              !.allFiles = IF q.kind = "createFile"
                                              THEN createFile_allFiles(<<>>, q.path, q.content)
                                              ELSE createFolder_allFiles(<<>>, q.path)]
      [] q.kind \in DeleteKinds ->
            IF id # NULL
               THEN [q EXCEPT !.currentSnapshotId = id, !.pc = "getFiles"]
               ELSE [q EXCEPT !.currentSnapshotId = id, !.pc = "rollback404"]
      [] q.kind = "getBlob" ->
            IF id # NULL
               THEN [q EXCEPT !.currentSnapshotId = id, !.pc = "selectFile"]
               ELSE [q EXCEPT !.currentSnapshotId = id, !.pc = "done",
                              !.res = [status |-> 404, body |-> <<>>]]
      [] q.kind = "getTree" -> getTree_afterResolve(q, id)

\* resolveSnapshotId, the branch query
resolveSnapshotId_branch(r) ==
    LET c == req[r].client
        rows == selectBranch(Visible(c), ProjectId, req[r].branch)
    IN /\ req[r].pc = "resolveBranch"
       /\ \/ IF rows # {} /\ (CHOOSE b \in rows : TRUE).head_snapshot_id # NULL
                THEN Proceed(r, afterResolve(req[r],
                                  (CHOOSE b \in rows : TRUE).head_snapshot_id), <<>>)
                ELSE Proceed(r, [req[r] EXCEPT !.pc = "resolveLatest"], <<>>)
          \/ Reject(r)
       /\ UNCHANGED <<storage, nextId, now, stray>>

\* resolveSnapshotId, the fallback query on latest_project_snapshot
resolveSnapshotId_latest(r) ==
    LET c == req[r].client
        ids == latest_project_snapshot(Visible(c), ProjectId)
    IN /\ req[r].pc = "resolveLatest"
       /\ \/ \E id \in (IF ids = {} THEN {NULL} ELSE ids) :
                Proceed(r, afterResolve(req[r], id), <<>>)
          \/ Reject(r)
       /\ UNCHANGED <<storage, nextId, now, stray>>

\* Delete handlers without the check that something was removed.
afterGetFiles_noCheck(q, files, t) ==
    CASE q.kind = "createFile" ->
            [q EXCEPT !.existingFiles = files, !.pc = "upload",
                      !.allFiles = createFile_allFiles(files, q.path, q.content)]
      [] q.kind = "createFolder" ->
            [q EXCEPT !.existingFiles = files, !.pc = "upload",
                      !.allFiles = createFolder_allFiles(files, q.path)]
      [] q.kind \in DeleteKinds ->
            LET updatedFiles == IF q.kind = "deleteFile"
                                   THEN deleteFile_updatedFiles(files, q.path)
                                   ELSE deleteFolder_updatedFiles(files, q.path)
            IN [q EXCEPT !.existingFiles = files, !.allFiles = updatedFiles,
                         !.ts = t, !.pc = "insertSnapshot"]

\* The handler after getFilesInSnapshot returned files; t is the clock
\* reading of createNewSnapshot where the handler goes on to call it.
afterGetFiles(q, files, t) ==
    CASE q.kind = "createFile" ->
            [q EXCEPT !.existingFiles = files, !.pc = "upload",
                      !.allFiles = createFile_allFiles(files, q.path, q.content)]
      [] q.kind = "createFolder" ->
            [q EXCEPT !.existingFiles = files, !.pc = "upload",
                      !.allFiles = createFolder_allFiles(files, q.path)]
      [] q.kind \in DeleteKinds ->
            LET updatedFiles == IF q.kind = "deleteFile"
                                   THEN deleteFile_updatedFiles(files, q.path)
                                   ELSE deleteFolder_updatedFiles(files, q.path)
            IN IF Len(files) = Len(updatedFiles)
                  THEN [q EXCEPT !.existingFiles = files, !.pc = "rollback404"]
                  ELSE [q EXCEPT !.existingFiles = files, !.allFiles = updatedFiles,
                                 !.ts = t, !.pc = "insertSnapshot"]

getFiles(r) ==
    LET c == req[r].client
    IN /\ req[r].pc = "getFiles"
       /\ \/ \E t \in DateNow(r) :
                LET rr == afterGetFiles(req[r],
                              getFilesInSnapshot(Visible(c), req[r].currentSnapshotId), t)
                IN /\ Proceed(r, rr, <<>>)
                   /\ now' = IF rr.pc = "insertSnapshot" THEN t ELSE now
          \/ Reject(r) /\ now' = now
       /\ UNCHANGED <<storage, nextId, stray>>

\* createFile that, like createFolder, logs a failed upload and goes on.
upload_softFail(r) ==
    LET q == req[r]
        newFile == q.allFiles[Len(q.allFiles)]
        bytes == IF q.kind = "createFile" THEN Base64Decode(q.content) ELSE ""
        filePathInStorage == uploadKey(ProjectId, newFile.hash)
    IN /\ q.pc = "upload"
       /\ \E uploadError \in BOOLEAN, t \in DateNow(r) :
             /\ storage' = IF uploadError THEN storage
                           ELSE (filePathInStorage :> bytes) @@ storage
             /\ req' = [req EXCEPT ![r].pc = "insertSnapshot", ![r].ts = t,
                                   ![r].uploadError = uploadError]
             /\ now' = t
       /\ UNCHANGED <<db, conn, nextId, stray>>

\* createFolder that, like createFile, throws on a failed upload.
upload_hardFail(r) ==
    LET q == req[r]
        newFile == q.allFiles[Len(q.allFiles)]
        bytes == IF q.kind = "createFile" THEN Base64Decode(q.content) ELSE ""
        filePathInStorage == uploadKey(ProjectId, newFile.hash)
    IN /\ q.pc = "upload"
       /\ \E uploadError \in BOOLEAN, t \in DateNow(r) :
             /\ storage' = IF uploadError THEN storage
                           ELSE (filePathInStorage :> bytes) @@ storage
             /\ IF uploadError
                   THEN /\ req' = [req EXCEPT ![r].pc = "catch", ![r].error = "upload",
                                              ![r].uploadError = TRUE]
                        /\ now' = now
                   ELSE /\ req' = [req EXCEPT ![r].pc = "insertSnapshot",
                                              ![r].ts = t,
                                              ![r].uploadError = uploadError]
                        /\ now' = t
       /\ UNCHANGED <<db, conn, nextId, stray>>

\* The blob-store upload of createFile / createFolder returned.  createFile
\* throws on an upload error, createFolder logs it and goes on; then
\* createNewSnapshot is called and reads the clock.
upload(r) ==
    LET q == req[r]
        newFile == q.allFiles[Len(q.allFiles)]
        bytes == IF q.kind = "createFile" THEN Base64Decode(q.content) ELSE ""
        filePathInStorage == uploadKey(ProjectId, newFile.hash)
    IN /\ q.pc = "upload"
       /\ \E uploadError \in BOOLEAN, t \in DateNow(r) :
             /\ storage' = IF uploadError THEN storage
                           ELSE (filePathInStorage :> bytes) @@ storage
             /\ IF uploadError /\ q.kind = "createFile"
                   THEN /\ req' = [req EXCEPT ![r].pc = "catch", ![r].error = "upload",
                                              ![r].uploadError = TRUE]
                        /\ now' = now
                   ELSE /\ req' = [req EXCEPT ![r].pc = "insertSnapshot",
                                              ![r].ts = t,
                                              ![r].uploadError = uploadError]
                        /\ now' = t
       /\ UNCHANGED <<db, conn, nextId, stray>>

\* A mutation that counts the files of the snapshot it started from.
createNewSnapshot_insertSnapshot_oldCount(r) ==
    LET q == req[r]
        row == [id |-> nextId, project_id |-> ProjectId, timestamp |-> q.ts,
                file_count |-> Len(q.existingFiles)]
    IN /\ q.kind \in MutationKinds /\ q.pc = "insertSnapshot"
       /\ \/ /\ Proceed(r, [q EXCEPT !.newSnapshotId = nextId,
                                     !.todo = q.allFiles,
                                     !.pc = IF Len(q.allFiles) > 0
                                               THEN "insertFiles"
                                               ELSE "updateBranchHead"],
                        <<[op |-> "insSnapshot", row |-> row]>>)
             /\ nextId' = nextId + 1
          \/ Reject(r) /\ nextId' = nextId
       /\ UNCHANGED <<storage, now, stray>>

\* A mutation that moves the head to the new snapshot as soon as it has the
\* id, ahead of the file rows.
createNewSnapshot_insertSnapshot_headFirst(r) ==
    LET q == req[r]
        row == [id |-> nextId, project_id |-> ProjectId, timestamp |-> q.ts,
                file_count |-> Len(q.allFiles)]
    IN /\ q.kind \in MutationKinds /\ q.pc = "insertSnapshot"
       /\ \/ /\ Proceed(r, [q EXCEPT !.newSnapshotId = nextId,
                                     !.todo = q.allFiles,
                                     !.pc = IF Len(q.allFiles) > 0
                                               THEN "insertFiles"
                                               ELSE "updateBranchHead"],
                        <<[op |-> "insSnapshot", row |-> row]>>
                           \o (IF selectBranch(Visible(q.client), ProjectId, q.branch) # {}
                                  THEN <<[op |-> "setHead", project_id |-> ProjectId,
                                          name |-> q.branch, head_snapshot_id |-> nextId]>>
                                  ELSE <<>>))
             /\ nextId' = nextId + 1
          \/ Reject(r) /\ nextId' = nextId
       /\ UNCHANGED <<storage, now, stray>>

\* createNewSnapshot: INSERT INTO snapshots ... RETURNING id, after which
\* the file-row inserts are all queued on the client.
createNewSnapshot_insertSnapshot(r) ==
    LET q == req[r]
        row == [id |-> nextId, project_id |-> ProjectId, timestamp |-> q.ts,
                file_count |-> Len(q.allFiles)]
    IN /\ q.kind \in MutationKinds /\ q.pc = "insertSnapshot"
       /\ \/ /\ Proceed(r, [q EXCEPT !.newSnapshotId = nextId,
                                     !.todo = q.allFiles,
                                     !.pc = IF Len(q.allFiles) > 0
                                               THEN "insertFiles"
                                               ELSE "updateBranchHead"],
                        <<[op |-> "insSnapshot", row |-> row]>>)
             /\ nextId' = nextId + 1
          \/ Reject(r) /\ nextId' = nextId
       /\ UNCHANGED <<storage, now, stray>>

\* The snapshot_files row of a file of the new snapshot.
fileRow(snapshotId, file) ==
    [snapshot_id |-> snapshotId, path |-> file.path, hash |-> file.hash,
     size |-> file.size, mode |-> file.mode]

\* createNewSnapshot that attaches the file rows to the snapshot the
\* request resolved instead of the one it inserted.
createNewSnapshot_insertFile_inPlace(r) ==
    LET q == req[r]
        c == q.client
        snapshotId == IF q.currentSnapshotId # NULL THEN q.currentSnapshotId
                                                    ELSE q.newSnapshotId
    IN /\ q.pc = "insertFiles"
       /\ \/ /\ \E s \in Visible(c).snapshots : s.id = snapshotId
             /\ Proceed(r, [q EXCEPT !.todo = Tail(q.todo),
                                     !.pc = IF Len(q.todo) > 1
                                               THEN "insertFiles"
                                               ELSE "updateBranchHead"],
                        <<[op |-> "insFile", row |-> fileRow(snapshotId, Head(q.todo))]>>)
          \/ Reject(r)
       /\ UNCHANGED <<storage, nextId, now, stray>>

\* createNewSnapshot: the next queued INSERT INTO snapshot_files; after the
\* last one Promise.all resolves and updateBranchHead is called.
createNewSnapshot_insertFile(r) ==
    LET q == req[r]
        c == q.client
    IN /\ q.pc = "insertFiles"
       /\ \/ /\ \E s \in Visible(c).snapshots : s.id = q.newSnapshotId
             /\ Proceed(r, [q EXCEPT !.todo = Tail(q.todo),
                                     !.pc = IF Len(q.todo) > 1
                                               THEN "insertFiles"
                                               ELSE "updateBranchHead"],
                        <<[op |-> "insFile",
                           row |-> fileRow(q.newSnapshotId, Head(q.todo))]>>)
          \/ Reject(r)
       /\ UNCHANGED <<storage, nextId, now, stray>>

\* The row (projectId, branch) of branches is locked by an unfinished
\* transaction of another connection.
RowLocked(c, projectId, branch) ==
    \E c2 \in Conns \ {c} :
        /\ conn[c2].tx # "none"
        /\ \E i \in 1..Len(conn[c2].w) :
              /\ conn[c2].w[i].op \in {"setHead", "insBranch"}
              /\ IF conn[c2].w[i].op = "setHead"
                    THEN conn[c2].w[i].project_id = projectId /\ conn[c2].w[i].name = branch
                    ELSE conn[c2].w[i].row.project_id = projectId
                            /\ conn[c2].w[i].row.name = branch

\* updateBranchHead with project id and branch name swapped in the
\* parameter list of the UPDATE.
updateBranchHead_swappedParams(t, projectId, branch, newSnapshotId) ==
    IF selectBranch(t, branch, projectId) # {}
       THEN <<[op |-> "setHead", project_id |-> branch, name |-> projectId,
               head_snapshot_id |-> newSnapshotId]>>
       ELSE <<>>

\* updateBranchHead that moves the head forward only (... AND
\* head_snapshot_id < $1).
updateBranchHead_monotonic(t, projectId, branch, newSnapshotId) ==
    IF \E b \in selectBranch(t, projectId, branch) : b.head_snapshot_id < newSnapshotId
       THEN <<[op |-> "setHead", project_id |-> projectId, name |-> branch,
               head_snapshot_id |-> newSnapshotId]>>
       ELSE <<>>

\* The writes of UPDATE branches SET head_snapshot_id = $1 ... WHERE
\* project_id = $3 AND name = $4: none when no row matches.
updateBranchHead(t, projectId, branch, newSnapshotId) ==
    IF selectBranch(t, projectId, branch) # {}
       THEN <<[op |-> "setHead", project_id |-> projectId, name |-> branch,
               head_snapshot_id |-> newSnapshotId]>>
       ELSE <<>>

updateBranchHead_step(r) ==
    LET q == req[r]
        c == q.client
    IN /\ q.pc = "updateBranchHead"
       /\ \/ /\ ~RowLocked(c, ProjectId, q.branch)
             /\ Proceed(r, [q EXCEPT !.pc = "COMMIT"],
                        updateBranchHead(Visible(c), ProjectId, q.branch, q.newSnapshotId))
          \/ Reject(r)
       /\ UNCHANGED <<storage, nextId, now, stray>>

\* The body of the success response of a mutation handler.
successResponse(q) ==
    CASE q.kind = "createFile" ->
            [status |-> 201,
             body |-> [snapshotId |-> q.newSnapshotId,
                       newFile |-> q.allFiles[Len(q.allFiles)]]]
      [] q.kind = "createFolder" ->
            [status |-> 201,
             body |-> [snapshotId |-> q.newSnapshotId,
                       newFolder |-> [path |-> q.path, type |-> "dir"]]]
      [] q.kind \in DeleteKinds ->
            [status |-> 200,
             body |-> [snapshotId |-> q.newSnapshotId, deletedPath |-> q.path]]
      [] q.kind = "createSnapshot" ->
            [status |-> 201,
             body |-> [id |-> q.newSnapshotId, project_id |-> ProjectId,
                       timestamp |-> q.timestamp, file_count |-> Len(q.files)]]
      [] q.kind = "deleteSnapshot" ->
            [status |-> 200, body |-> [id |-> q.id]]

\* await client.query('COMMIT'); the response; finally client.release().
\* COMMIT of an aborted transaction rolls back and reports no error.
commit(r) ==
    LET q == req[r]
        c == q.client
    IN /\ q.pc = "COMMIT"
       /\ \/ /\ db' = IF conn[c].tx = "open" THEN ApplyWrites(db, conn[c].w) ELSE db
             /\ conn' = [conn EXCEPT ![c] = IdleConn]
             /\ req' = [req EXCEPT ![r].pc = "done", ![r].res = successResponse(q)]
          \/ Reject(r)
       /\ UNCHANGED <<storage, nextId, now, stray>>

\* catch: await client.query('ROLLBACK'); 500; finally client.release().
catch(r) ==
    LET q == req[r]
        c == q.client
    IN /\ q.pc = "catch"
       /\ conn' = [conn EXCEPT ![c] = IdleConn]
       /\ req' = [req EXCEPT ![r].pc = "done",
                             ![r].res = [status |-> 500, body |-> <<>>]]
       /\ UNCHANGED <<db, storage, nextId, now, stray>>

\* catch when ROLLBACK itself is rejected (the connection is lost, and the
\* store drops its transaction): the handler throws out of catch without
\* having sent a response, and finally releases the client, which the pool
\* replaces.
catch_rollbackRejected(r) ==
    LET q == req[r]
        c == q.client
    IN /\ q.pc = "catch"
       /\ conn' = [conn EXCEPT ![c] = IdleConn]
       /\ \E res \in unhandled :
             req' = [req EXCEPT ![r].pc = "done", ![r].error = "ROLLBACK", ![r].res = res]
       /\ UNCHANGED <<db, storage, nextId, now, stray>>

\* The 404 of the delete handlers returned ahead of a release that sits at
\* the end of the try block instead of in finally.
rollback404_noRelease(r) ==
    LET q == req[r]
        c == q.client
    IN /\ q.pc = "rollback404"
       /\ \/ /\ conn' = [conn EXCEPT ![c].tx = "none", ![c].w = <<>>]
             /\ db' = db
             /\ req' = [req EXCEPT ![r].pc = "done",
                                   ![r].res = [status |-> 404, body |-> <<>>]]
          \/ Reject(r)
       /\ UNCHANGED <<storage, nextId, now, stray>>

\* deleteFile / deleteFolder: await client.query('ROLLBACK'); return 404
rollback404(r) ==
    LET q == req[r]
        c == q.client
    IN /\ q.pc = "rollback404"
       /\ \/ /\ conn' = [conn EXCEPT ![c] = IdleConn]
             /\ db' = db
             /\ req' = [req EXCEPT ![r].pc = "done",
                                   ![r].res = [status |-> 404, body |-> <<>>]]
          \/ Reject(r)
       /\ UNCHANGED <<storage, nextId, now, stray>>

\* A handler that asks for a client before it looks at the fields.
arrive_noValidation(r, kind, branch, path, content, userId) ==
    LET q == [IdleReq EXCEPT !.kind = kind, !.branch = branch, !.path = path,
                             !.content = content, !.userId = userId, !.pre = db]
    IN /\ Free(r)
       /\ req' = [req EXCEPT ![r] = [q EXCEPT !.pc = "connect"]]
       /\ UNCHANGED <<db, conn, storage, nextId, now, stray>>

\* A mutation request arrives: 400 on a missing field, else pool.connect().
arrive(r, kind, branch, path, content, userId) ==
    LET q == [IdleReq EXCEPT !.kind = kind, !.branch = branch, !.path = path,
                             !.content = content, !.userId = userId, !.pre = db]
        invalid == \/ Falsy(branch) \/ path = <<>> \/ Falsy(userId)
                   \/ (kind = "createFile" /\ content = MISSING)
    IN /\ Free(r)
       /\ req' = [req EXCEPT ![r] =
                    IF invalid
                       THEN [q EXCEPT !.pc = "done",
                                      !.res = [status |-> 400, body |-> <<>>]]
                       ELSE [q EXCEPT !.pc = "connect"]]
       /\ UNCHANGED <<db, conn, storage, nextId, now, stray>>

createFile(r, Args) ==
    \E a \in Args : arrive(r, "createFile", a[1], a[2], a[3], a[4])

createFolder(r, Args) ==
    \E a \in Args : arrive(r, "createFolder", a[1], a[2], a[3], a[4])

deleteFile(r, Args) ==
    \E a \in Args : arrive(r, "deleteFile", a[1], a[2], a[3], a[4])

deleteFolder(r, Args) ==
    \E a \in Args : arrive(r, "deleteFolder", a[1], a[2], a[3], a[4])

(***************************************************************************)
(* getBranches                                                             *)
(***************************************************************************)
getBranches(r) ==
    /\ Free(r)
    /\ req' = [req EXCEPT ![r] = [IdleReq EXCEPT !.kind = "getBranches",
                                                 !.pc = "connect", !.pre = db]]
    /\ UNCHANGED <<db, conn, storage, nextId, now, stray>>

\* SELECT ... FROM branches WHERE project_id = $1 (the first one)
getBranches_existing(r) ==
    LET q == req[r]
        c == q.client
        existing == {b \in Visible(c).branches : b.project_id = ProjectId}
    IN /\ q.kind = "getBranches" /\ q.pc = "select"
       /\ \/ Proceed(r, [q EXCEPT !.pc = IF existing = {} THEN "latest" ELSE "result"], <<>>)
          \/ Reject(r)
       /\ UNCHANGED <<storage, nextId, now, stray>>

\* getBranches that creates main without a head whatever the project holds.
getBranches_latest_nullHead(r) ==
    LET q == req[r]
    IN /\ q.kind = "getBranches" /\ q.pc = "latest"
       /\ \/ Proceed(r, [q EXCEPT !.currentSnapshotId = NULL, !.pc = "insertBranch"], <<>>)
          \/ Reject(r)
       /\ UNCHANGED <<storage, nextId, now, stray>>

\* SELECT id FROM latest_project_snapshot, then the INSERT is issued
getBranches_latest(r) ==
    LET q == req[r]
        c == q.client
        ids == latest_project_snapshot(Visible(c), ProjectId)
    IN /\ q.kind = "getBranches" /\ q.pc = "latest"
       /\ \/ \E headId \in (IF ids = {} THEN {NULL} ELSE ids) :
                Proceed(r, [q EXCEPT !.currentSnapshotId = headId, !.pc = "insertBranch"], <<>>)
          \/ Reject(r)
       /\ UNCHANGED <<storage, nextId, now, stray>>

\* INSERT INTO branches (project_id, name, head_snapshot_id, ...) VALUES
\* ($1, 'main', $2, ...); (project_id, name) is unique: where the row is
\* there by now the statement fails with code 23505, and catch answers 500
\* as for any other error.
getBranches_insert(r) ==
    LET q == req[r]
        c == q.client
        row == [project_id |-> ProjectId, name |-> "main",
                head_snapshot_id |-> q.currentSnapshotId]
    IN /\ q.kind = "getBranches" /\ q.pc = "insertBranch"
       /\ \/ /\ selectBranch(Visible(c), ProjectId, "main") = {}
             /\ ~RowLocked(c, ProjectId, "main")
             /\ Proceed(r, [q EXCEPT !.pc = "result"], <<[op |-> "insBranch", row |-> row]>>)
          \/ /\ selectBranch(Visible(c), ProjectId, "main") # {}
             /\ conn[c].tx # "aborted"
             /\ db' = db
             /\ conn' = release(ConnAfterErr(c), c)
             /\ req' = [req EXCEPT ![r].pc = "done", ![r].error = "23505",
                                   ![r].res = [status |-> 500, body |-> <<>>]]
          \/ Reject(r)
       /\ UNCHANGED <<storage, nextId, now, stray>>

\* the final SELECT and res.status(200).json(result.rows)
getBranches_result(r) ==
    LET q == req[r]
        c == q.client
        rows == {b \in Visible(c).branches : b.project_id = ProjectId}
    IN /\ q.kind = "getBranches" /\ q.pc = "result"
       /\ \/ Proceed(r, [q EXCEPT !.pc = "done",
                                  !.res = [status |-> 200, body |-> rows]], <<>>)
          \/ Reject(r)
       /\ UNCHANGED <<storage, nextId, now, stray>>

(***************************************************************************)
(* createSnapshot (bulk upload)                                            *)
(***************************************************************************)
\* Files of the payload: path, hash, size, mode and optional base64 content.
FileData(path, bytes, withContent) ==
    [path |-> path, hash |-> sha256(bytes), size |-> byteLength(bytes),
     mode |-> fileMode, content |-> IF withContent THEN Base64Encode(bytes) ELSE MISSING]

\* Payloads <<files, timestamp>>; a timestamp of 0 stands for a missing one.
FutureTimestamp == MaxClock + 2

CreateSnapshotArgs ==
    {<<<<>>, 1>>,
     <<<<FileData(P_abf, "hello", FALSE), FileData(P_abf, "world", FALSE)>>, 1>>,
     <<<<FileData(P_abcd, "hello", TRUE), FileData(P_abce, "world", TRUE)>>, FutureTimestamp>>,
     <<<<FileData(P_abf, "hello", TRUE)>>, 0>>}

createSnapshot(r, Args) ==
    \E a \in Args :
        LET q == [IdleReq EXCEPT !.kind = "createSnapshot", !.files = a[1],
                                 !.timestamp = a[2], !.pre = db]
        IN /\ Free(r)
           /\ req' = [req EXCEPT ![r] =
                        IF a[2] = 0
                           THEN [q EXCEPT !.pc = "done",
                                          !.res = [status |-> 400, body |-> <<>>]]
                           ELSE [q EXCEPT !.pc = "connect"]]
           /\ UNCHANGED <<db, conn, storage, nextId, now, stray>>

\* The per-file tasks still waiting for their upload when the handler leaves
\* the try block: they go on running on their own.
leftTasks(q) ==
    {[client |-> q.client, snapshot_id |-> q.newSnapshotId, file |-> q.files[i],
      phase |-> "upload"] : i \in {j \in 1..Len(q.tasks) : q.tasks[j] = "upload"}}

\* A bulk upload that also moves the head of main to its snapshot.
createSnapshot_insertSnapshot_advanceHead(r) ==
    LET q == req[r]
        row == [id |-> nextId, project_id |-> ProjectId, timestamp |-> q.timestamp,
                file_count |-> Len(q.files)]
        tasks == [i \in 1..Len(q.files) |->
                    IF Falsy(q.files[i].content) THEN "queued" ELSE "upload"]
        queued == {i \in 1..Len(q.files) : tasks[i] = "queued"}
        RECURSIVE inOrder(_)
        inOrder(n) == IF n = 0 THEN <<>>
                      ELSE inOrder(n - 1) \o (IF n \in queued THEN <<n>> ELSE <<>>)
    IN /\ q.kind = "createSnapshot" /\ q.pc = "insertSnapshot"
       /\ \/ /\ Proceed(r, [q EXCEPT !.newSnapshotId = nextId,
                                     !.tasks = tasks,
                                     !.queue = inOrder(Len(q.files)),
                                     !.pc = IF Len(q.files) > 0 THEN "all" ELSE "COMMIT"],
                        <<[op |-> "insSnapshot", row |-> row],
                          [op |-> "setHead", project_id |-> ProjectId, name |-> "main",
                           head_snapshot_id |-> nextId]>>)
             /\ nextId' = nextId + 1
          \/ Reject(r) /\ nextId' = nextId
       /\ UNCHANGED <<storage, now, stray>>

\* INSERT INTO snapshots ... RETURNING ...; then files.map starts one task
\* per file: a file with content first awaits its upload, a file without
\* queues its INSERT on the client at once.
createSnapshot_insertSnapshot(r) ==
    LET q == req[r]
        row == [id |-> nextId, project_id |-> ProjectId, timestamp |-> q.timestamp,
                file_count |-> Len(q.files)]
        tasks == [i \in 1..Len(q.files) |->
                    IF Falsy(q.files[i].content) THEN "queued" ELSE "upload"]
        queued == {i \in 1..Len(q.files) : tasks[i] = "queued"}
        RECURSIVE inOrder(_)
        inOrder(n) == IF n = 0 THEN <<>>
                      ELSE inOrder(n - 1) \o (IF n \in queued THEN <<n>> ELSE <<>>)
    IN /\ q.kind = "createSnapshot" /\ q.pc = "insertSnapshot"
       /\ \/ /\ Proceed(r, [q EXCEPT !.newSnapshotId = nextId,
                                     !.tasks = tasks,
                                     !.queue = inOrder(Len(q.files)),
                                     !.pc = IF Len(q.files) > 0 THEN "all" ELSE "COMMIT"],
                        <<[op |-> "insSnapshot", row |-> row]>>)
             /\ nextId' = nextId + 1
          \/ Reject(r) /\ nextId' = nextId
       /\ UNCHANGED <<storage, now, stray>>

\* The storage key of the bulk path: `${projectId}/${newSnapshot.id}/${file.hash}`
bulkKey(projectId, snapshotId, hash) == <<projectId, ToString(snapshotId), hash>>

\* The upload of task i returned: on an error the task throws, Promise.all
\* rejects and the handler enters catch; else the task queues its INSERT.
createSnapshot_uploaded(r) ==
    LET q == req[r]
    IN /\ q.kind = "createSnapshot" /\ q.pc = "all"
       /\ \E i \in 1..Len(q.tasks), uploadError \in BOOLEAN :
             /\ q.tasks[i] = "upload"
             /\ IF uploadError
                   THEN LET qf == [q EXCEPT !.tasks[i] = "failed", !.error = "upload",
                                             !.uploadError = TRUE]
                        IN /\ storage' = storage
                           /\ req' = [req EXCEPT ![r] = [qf EXCEPT !.pc = "catch"]]
                           /\ stray' = stray \cup leftTasks(qf)
                   ELSE /\ storage' =
                              (bulkKey(ProjectId, q.newSnapshotId, q.files[i].hash)
                                  :> Base64Decode(q.files[i].content)) @@ storage
                        /\ req' = [req EXCEPT ![r].tasks[i] = "queued",
                                              ![r].queue = Append(@, i)]
                        /\ stray' = stray
       /\ UNCHANGED <<db, conn, nextId, now>>

\* The next queued INSERT INTO snapshot_files of the request; when the last
\* task is done Promise.all resolves and COMMIT is issued.
createSnapshot_insertFile(r) ==
    LET q == req[r]
        c == q.client
        i == Head(q.queue)
        tasks == [q.tasks EXCEPT ![i] = "done"]
    IN /\ q.kind = "createSnapshot" /\ q.pc = "all" /\ q.queue # <<>>
       /\ \/ /\ \E s \in Visible(c).snapshots : s.id = q.newSnapshotId
             /\ Proceed(r, [q EXCEPT !.tasks = tasks, !.queue = Tail(q.queue),
                                     !.pc = IF \A j \in 1..Len(tasks) : tasks[j] = "done"
                                               THEN "COMMIT" ELSE "all"],
                        <<[op |-> "insFile",
                           row |-> fileRow(q.newSnapshotId, q.files[i])]>>)
             /\ stray' = stray
          \/ /\ Reject(r)
             /\ stray' = stray \cup leftTasks(q)
       /\ UNCHANGED <<storage, nextId, now>>

\* The upload of a task that outlived its handler returned: on an error the
\* task ends, else it queues its INSERT on the client it was given.
stray_uploaded ==
    \E t \in stray, uploadError \in BOOLEAN :
        /\ t.phase = "upload"
        /\ IF uploadError
              THEN /\ storage' = storage
                   /\ stray' = stray \ {t}
              ELSE /\ storage' = (bulkKey(ProjectId, t.snapshot_id, t.file.hash)
                                     :> Base64Decode(t.file.content)) @@ storage
                   /\ stray' = (stray \ {t}) \cup {[t EXCEPT !.phase = "queued"]}
        /\ UNCHANGED <<db, conn, req, nextId, now>>

\* The INSERT INTO snapshot_files of such a task runs on its client, behind
\* the ROLLBACK of its own handler, whoever holds the client by then.
stray_insertFile ==
    \E t \in stray :
        /\ t.phase = "queued"
        /\ \A r \in Reqs : ~(req[r].client = t.client /\ req[r].pc = "catch"
                               /\ req[r].newSnapshotId = t.snapshot_id)
        /\ IF /\ conn[t.client].tx # "aborted"
              /\ \E s \in Visible(t.client).snapshots : s.id = t.snapshot_id
              THEN /\ db' = DbAfterOk(t.client, <<[op |-> "insFile",
                                row |-> fileRow(t.snapshot_id, t.file)]>>)
                   /\ conn' = ConnAfterOk(t.client, <<[op |-> "insFile",
                                row |-> fileRow(t.snapshot_id, t.file)]>>)
              ELSE /\ db' = db
                   /\ conn' = ConnAfterErr(t.client)
        /\ stray' = stray \ {t}
        /\ UNCHANGED <<storage, req, nextId, now>>

(***************************************************************************)
(* getBlob                                                                 *)
(***************************************************************************)
GetBlobArgs == ({"main"} \X FilePaths) \cup {<<MISSING, P_abf>>}

getBlob(r, Args) ==
    \E a \in Args :
        /\ Free(r)
        /\ req' = [req EXCEPT ![r] = [IdleReq EXCEPT !.kind = "getBlob", !.branch = a[1],
                                                     !.path = a[2], !.pc = "connect",
                                                     !.pre = db]]
        /\ UNCHANGED <<db, conn, storage, nextId, now, stray>>

\* SELECT path, hash, size, mode FROM snapshot_files WHERE snapshot_id = $1
\* AND path = $2 LIMIT 1
getBlob_selectFile(r) ==
    LET q == req[r]
        c == q.client
        files == getFilesInSnapshot(Visible(c), q.currentSnapshotId)
        rows == {files[i] : i \in {j \in 1..Len(files) : files[j].path = q.path}}
    IN /\ q.kind = "getBlob" /\ q.pc = "selectFile"
       /\ \/ IF rows = {}
                THEN Proceed(r, [q EXCEPT !.pc = "done",
                                          !.res = [status |-> 404, body |-> <<>>]], <<>>)
                ELSE \E file \in rows :
                        Proceed(r, [q EXCEPT !.file = file, !.pc = "download"], <<>>)
          \/ Reject(r)
       /\ UNCHANGED <<storage, nextId, now, stray>>

\* getBlob that gives up on the whole call when the download fails.
getBlob_download_escalate(r) ==
    LET q == req[r]
        c == q.client
        filePathInStorage == downloadKey(ProjectId, q.currentSnapshotId, q.file.hash)
    IN /\ q.kind = "getBlob" /\ q.pc = "download"
       /\ \E downloadError \in BOOLEAN :
             /\ filePathInStorage \notin DOMAIN storage => downloadError
             /\ req' = [req EXCEPT ![r].pc = "done",
                                   ![r].res =
                          IF downloadError
                             THEN [status |-> 500, body |-> <<>>]
                             ELSE [status |-> 200,
                                   body |-> [path |-> q.file.path, hash |-> q.file.hash,
                                             size |-> q.file.size, mode |-> q.file.mode,
                                             content |-> Base64Encode(storage[filePathInStorage]),
                                             message |-> MISSING]]]
       /\ conn' = release(conn, c)
       /\ UNCHANGED <<db, storage, nextId, now, stray>>

\* The blob-store download returned: the bytes stored under the key, or an
\* error (there are none, or the store fails); 200 either way.
getBlob_download(r) ==
    LET q == req[r]
        c == q.client
        filePathInStorage == downloadKey(ProjectId, q.currentSnapshotId, q.file.hash)
        body(content, message) ==
            [path |-> q.file.path, hash |-> q.file.hash, size |-> q.file.size,
             mode |-> q.file.mode, content |-> content, message |-> message]
    IN /\ q.kind = "getBlob" /\ q.pc = "download"
       /\ \E downloadError \in BOOLEAN :
             /\ filePathInStorage \notin DOMAIN storage => downloadError
             /\ req' = [req EXCEPT ![r].pc = "done",
                                   ![r].res =
                          [status |-> 200,
                           body |-> IF downloadError
                                       THEN body(MISSING, "Could not download file content")
                                       ELSE body(Base64Encode(storage[filePathInStorage]),
                                                 MISSING)]]
       /\ conn' = release(conn, c)
       /\ UNCHANGED <<db, storage, nextId, now, stray>>

(***************************************************************************)
(* getTree                                                                 *)
(***************************************************************************)
P_aUb == <<"a", "_", "b">>
P_Sab == <<"/", "a", "/", "b">>

\* <<branch, path>> of the query string; path defaults to ''.
GetTreeArgs ==
    ({"main"} \X {<<>>, P_ab, P_aUb}) \cup {<<"dev", P_abS>>, <<MISSING, P_Sab>>}

getTree(r, Args) ==
    \E a \in Args :
        /\ Free(r)
        /\ req' = [req EXCEPT ![r] = [IdleReq EXCEPT !.kind = "getTree", !.branch = a[1],
                                                     !.path = a[2], !.pc = "connect",
                                                     !.pre = db]]
        /\ UNCHANGED <<db, conn, storage, nextId, now, stray>>

\* (path || '').replace(/^\/+|\/+$/g, '')
RECURSIVE stripLeading(_)
stripLeading(s) ==
    IF s # <<>> /\ s[1] = SLASH THEN stripLeading(Tail(s)) ELSE s

RECURSIVE stripTrailing(_)
stripTrailing(s) ==
    IF s # <<>> /\ s[Len(s)] = SLASH THEN stripTrailing(SubSeq(s, 1, Len(s) - 1)) ELSE s

getTree_basePath(path) == stripTrailing(stripLeading(path))

\* basePath ? basePath + '/' : ''
getTree_likePrefix(basePath) ==
    IF basePath # <<>> THEN basePath \o <<SLASH>> ELSE <<>>

\* string LIKE pattern: % matches any run of characters, _ any one
\* character, a backslash takes the next character literally.
RECURSIVE like(_, _)
like(s, pattern) ==
    IF pattern = <<>> THEN s = <<>>
    ELSE CASE pattern[1] = "%" ->
                \E k \in 0..Len(s) : like(SubSeq(s, k + 1, Len(s)), Tail(pattern))
           [] pattern[1] = "_" ->
                s # <<>> /\ like(Tail(s), Tail(pattern))
           [] pattern[1] = "\\" /\ Len(pattern) > 1 ->
                s # <<>> /\ s[1] = pattern[2] /\ like(Tail(s), Tail(Tail(pattern)))
           [] OTHER ->
                s # <<>> /\ s[1] = pattern[1] /\ like(Tail(s), Tail(pattern))

\* The characters of the modelled paths in the order of their codes.
charCode(ch) ==
    CASE ch = ".gitkeep" -> 46
      [] ch = "/" -> 47
      [] ch = "_" -> 95
      [] ch = "a" -> 97
      [] ch = "b" -> 98
      [] ch = "c" -> 99
      [] ch = "d" -> 100
      [] ch = "e" -> 101
      [] ch = "f" -> 102

\* p sorts before q (ORDER BY path ASC)
RECURSIVE pathLess(_, _)
pathLess(p, q) ==
    IF q = <<>> THEN FALSE
    ELSE IF p = <<>> THEN TRUE
    ELSE IF p[1] = q[1] THEN pathLess(Tail(p), Tail(q))
    ELSE charCode(p[1]) < charCode(q[1])

\* The orders ORDER BY path ASC can return rows in: rows of one path come
\* in any order.
orderByPath(rows) ==
    LET n == Len(rows)
        perms == {p \in [1..n -> 1..n] : \A i, j \in 1..n : p[i] = p[j] => i = j}
        sorted == {p \in perms :
                     \A i, j \in 1..n : i < j => ~pathLess(rows[p[j]].path, rows[p[i]].path)}
    IN {[i \in 1..n |-> rows[p[i]]] : p \in sorted}

\* String.prototype.indexOf('/'), counted from 1; 0 when there is none
indexOfSlash(s) ==
    IF \E i \in 1..Len(s) : s[i] = SLASH
       THEN CHOOSE i \in 1..Len(s) : s[i] = SLASH /\ \A j \in 1..(i - 1) : s[j] # SLASH
       ELSE 0

\* The entry of one row: a file at this level, or the folder it lies in.
getTree_entry(row, likePrefix) ==
    LET rel == SubSeq(row.path, Len(likePrefix) + 1, Len(row.path))
        slash == indexOfSlash(rel)
    IN IF slash = 0
          THEN [name |-> rel, type |-> "file", size |-> row.size]
          ELSE [name |-> SubSeq(rel, 1, slash - 1), type |-> "dir"]

\* The loop over files.rows: the first entry of every name is kept.
RECURSIVE getTree_entries(_, _)
getTree_entries(rows, likePrefix) ==
    IF rows = <<>> THEN <<>>
    ELSE LET entries == getTree_entries(SubSeq(rows, 1, Len(rows) - 1), likePrefix)
             entry == getTree_entry(rows[Len(rows)], likePrefix)
         IN IF \E i \in 1..Len(entries) : entries[i].name = entry.name
               THEN entries
               ELSE Append(entries, entry)

\* SELECT path, size, mode FROM snapshot_files WHERE snapshot_id = $1 AND
\* path LIKE $2 || '%' ORDER BY path ASC; then the entries and 200
getTree_select(r) ==
    LET q == req[r]
        c == q.client
        likePrefix == getTree_likePrefix(getTree_basePath(q.path))
        found == SelectSeq(Visible(c).snapshot_files,
                           LAMBDA f : /\ f.snapshot_id = q.currentSnapshotId
                                      /\ like(f.path, likePrefix \o <<"%">>))
        rows == [i \in 1..Len(found) |->
                    [path |-> found[i].path, size |-> found[i].size,
                     mode |-> found[i].mode]]
    IN /\ q.kind = "getTree" /\ q.pc = "selectTree"
       /\ \/ \E files \in orderByPath(rows) :
                Proceed(r, [q EXCEPT !.existingFiles = files, !.pc = "done",
                                     !.res = [status |-> 200,
                                              body |-> getTree_entries(files, likePrefix)]],
                        <<>>)
          \/ Reject(r)
       /\ UNCHANGED <<storage, nextId, now, stray>>

(***************************************************************************)
(* deleteSnapshot                                                          *)
(***************************************************************************)
deleteSnapshot(r, Ids) ==
    \E id \in Ids :
        /\ Free(r)
        /\ req' = [req EXCEPT ![r] = [IdleReq EXCEPT !.kind = "deleteSnapshot", !.id = id,
                                                     !.pc = "connect", !.pre = db]]
        /\ UNCHANGED <<db, conn, storage, nextId, now, stray>>

\* SELECT path, hash FROM snapshot_files WHERE snapshot_id = $1, before the
\* transaction starts; then BEGIN is issued.
deleteSnapshot_selectFiles(r) ==
    LET q == req[r]
        c == q.client
    IN /\ q.kind = "deleteSnapshot" /\ q.pc = "selectFiles"
       /\ \/ Proceed(r, [q EXCEPT !.existingFiles = getFilesInSnapshot(Visible(c), q.id),
                                  !.pc = "BEGIN"], <<>>)
          \/ Reject(r)
       /\ UNCHANGED <<storage, nextId, now, stray>>

\* The snapshot row id is locked by an unfinished transaction of another
\* connection that deleted it.
SnapshotLocked(c, id) ==
    \E c2 \in Conns \ {c} :
        /\ conn[c2].tx # "none"
        /\ \E i \in 1..Len(conn[c2].w) :
              conn[c2].w[i].op = "delSnapshot" /\ conn[c2].w[i].id = id

\* A store that leaves the heads alone when a snapshot goes.
nullOutHeads_none(t, id) == <<>>

\* What the store does to the branches whose head is the deleted snapshot:
\* the head pointer is nulled out.
nullOutHeads(t, id) ==
    LET rows == {b \in t.branches : b.head_snapshot_id = id}
        RECURSIVE writes(_)
        writes(bs) ==
            IF bs = {} THEN <<>>
            ELSE LET b == CHOOSE x \in bs : TRUE
                 IN <<[op |-> "setHead", project_id |-> b.project_id, name |-> b.name,
                       head_snapshot_id |-> NULL]>> \o writes(bs \ {b})
    IN writes(rows)

\* DELETE FROM snapshots WHERE id = $1 RETURNING id, project_id.  Where the
\* snapshot is the head of a branch the store either refuses the delete or
\* nulls the head out.
deleteSnapshot_delete(r) ==
    LET q == req[r]
        c == q.client
        t == Visible(c)
        rows == {x \in t.snapshots : x.id = q.id}
        isHead == \E b \in t.branches : b.head_snapshot_id = q.id
    IN /\ q.kind = "deleteSnapshot" /\ q.pc = "DELETE"
       /\ \/ /\ ~SnapshotLocked(c, q.id)
             /\ IF rows = {}
                   THEN Proceed(r, [q EXCEPT !.pc = "rollback404"], <<>>)
                   ELSE Proceed(r, [q EXCEPT !.pc = IF Len(q.existingFiles) > 0
                                                       THEN "remove" ELSE "COMMIT"],
                                <<[op |-> "delSnapshot", id |-> q.id]>>
                                    \o nullOutHeads(t, q.id))
          \/ Reject(r)
       /\ UNCHANGED <<storage, nextId, now, stray>>

\* deleteSnapshot that throws on a failed remove: catch answers 500 and the
\* client is released.
deleteSnapshot_remove_escalate(r) ==
    LET q == req[r]
        pathsToDelete == {bulkKey(ProjectId, q.id, q.existingFiles[i].hash) :
                             i \in 1..Len(q.existingFiles)}
    IN /\ q.kind = "deleteSnapshot" /\ q.pc = "remove"
       /\ \E deleteError \in BOOLEAN :
             IF deleteError
                THEN /\ storage' = storage
                     /\ req' = [req EXCEPT ![r].pc = "done",
                                           ![r].res = [status |-> 500, body |-> <<>>]]
                     /\ conn' = release(conn, q.client)
                ELSE /\ storage' = [k \in DOMAIN storage \ pathsToDelete |-> storage[k]]
                     /\ req' = [req EXCEPT ![r].pc = "COMMIT"]
                     /\ conn' = conn
       /\ UNCHANGED <<db, nextId, now, stray>>

\* supabase remove of `${projectId}/${snapshotId}/${hash}` for every file
\* row read before; an error is logged and ignored.  Then COMMIT is issued.
deleteSnapshot_remove(r) ==
    LET q == req[r]
        pathsToDelete == {bulkKey(ProjectId, q.id, q.existingFiles[i].hash) :
                             i \in 1..Len(q.existingFiles)}
    IN /\ q.kind = "deleteSnapshot" /\ q.pc = "remove"
       /\ \E deleteError \in BOOLEAN :
             storage' = IF deleteError THEN storage
                        ELSE [k \in DOMAIN storage \ pathsToDelete |-> storage[k]]
       /\ req' = [req EXCEPT ![r].pc = "COMMIT"]
       /\ UNCHANGED <<db, conn, nextId, now, stray>>

(***************************************************************************)
(* createOrGetUser                                                         *)
(***************************************************************************)
\* <<clerkUserId, email>> of the request body
CreateOrGetUserArgs ==
    {<<"clerk1", "e1">>, <<"clerk2", "e2">>, <<"clerk1", MISSING>>}

createOrGetUser(r, Args) ==
    \E a \in Args :
        LET q == [IdleReq EXCEPT !.kind = "createOrGetUser", !.clerkUserId = a[1],
                                 !.email = a[2], !.pre = db]
        IN /\ Free(r)
           /\ req' = [req EXCEPT ![r] =
                        IF Falsy(a[1]) \/ Falsy(a[2])
                           THEN [q EXCEPT !.pc = "done",
                                          !.res = [status |-> 400, body |-> <<>>]]
                           ELSE [q EXCEPT !.pc = "connect"]]
           /\ UNCHANGED <<db, conn, storage, nextId, now, stray>>

\* SELECT id FROM users WHERE clerk_user_id = $1
selectUser(t, clerkUserId) == {u \in t.users : u.clerk_user_id = clerkUserId}

\* gen_random_uuid(): an id no row of the table has
newUserId(t) == Cardinality(t.users) + 1

createOrGetUser_select(r) ==
    LET q == req[r]
        rows == selectUser(Visible(q.client), q.clerkUserId)
    IN /\ q.kind = "createOrGetUser" /\ q.pc = "selectUser"
       /\ \/ IF rows # {}
                THEN \E u \in rows :
                        Proceed(r, [q EXCEPT !.user = u.id, !.pc = "updateUser"], <<>>)
                ELSE Proceed(r, [q EXCEPT !.pc = "insertUser"], <<>>)
          \/ Reject(r)
       /\ UNCHANGED <<storage, nextId, now, stray>>

\* UPDATE users SET last_login_at = $1 WHERE id = $2 (the column is not among
\* the modelled ones), then 200 with the userId
createOrGetUser_update(r) ==
    LET q == req[r]
    IN /\ q.kind = "createOrGetUser" /\ q.pc = "updateUser"
       /\ \/ Proceed(r, [q EXCEPT !.pc = "done",
                                  !.res = [status |-> 200, body |-> [userId |-> q.user]]],
                      <<>>)
          \/ Reject(r)
       /\ UNCHANGED <<storage, nextId, now, stray>>

\* createOrGetUser that answers a unique violation like any other error.
createOrGetUser_insert_no409(r) ==
    LET q == req[r]
        c == q.client
        t == Visible(c)
        row == [id |-> newUserId(t), clerk_user_id |-> q.clerkUserId, email |-> q.email]
    IN /\ q.kind = "createOrGetUser" /\ q.pc = "insertUser"
       /\ \/ IF selectUser(t, q.clerkUserId) = {}
                THEN Proceed(r, [q EXCEPT !.user = row.id, !.pc = "done",
                                          !.res = [status |-> 200,
                                                   body |-> [userId |-> row.id]]],
                             <<[op |-> "insUser", row |-> row]>>)
                ELSE /\ conn[c].tx # "aborted"
                     /\ db' = db
                     /\ conn' = release(ConnAfterErr(c), c)
                     /\ req' = [req EXCEPT ![r].pc = "done", ![r].error = "23505",
                                           ![r].res = [status |-> 500, body |-> <<>>]]
          \/ Reject(r)
       /\ UNCHANGED <<storage, nextId, now, stray>>

\* INSERT INTO users (clerk_user_id, email, ...) RETURNING id, with
\* clerk_user_id UNIQUE: a row with the key makes the statement fail with
\* code 23505, which catch answers 409; any other error is a 500.
createOrGetUser_insert(r) ==
    LET q == req[r]
        c == q.client
        t == Visible(c)
        row == [id |-> newUserId(t), clerk_user_id |-> q.clerkUserId, email |-> q.email]
    IN /\ q.kind = "createOrGetUser" /\ q.pc = "insertUser"
       /\ \/ IF selectUser(t, q.clerkUserId) = {}
                THEN Proceed(r, [q EXCEPT !.user = row.id, !.pc = "done",
                                          !.res = [status |-> 200,
                                                   body |-> [userId |-> row.id]]],
                             <<[op |-> "insUser", row |-> row]>>)
                ELSE /\ conn[c].tx # "aborted"
                     /\ db' = db
                     /\ conn' = release(ConnAfterErr(c), c)
                     /\ req' = [req EXCEPT ![r].pc = "done", ![r].error = "23505",
                                           ![r].res = [status |-> 409, body |-> <<>>]]
          \/ Reject(r)
       /\ UNCHANGED <<storage, nextId, now, stray>>

(***************************************************************************)
(* CLI auth requests                                                       *)
(***************************************************************************)
\* <<cliAuthToken, createdAt>> of the request body
CreateCliAuthRequestArgs == {<<"t1", "1">>, <<"t2", "1">>, <<"t1", MISSING>>}

createCliAuthRequest(r, Args) ==
    \E a \in Args :
        LET q == [IdleReq EXCEPT !.kind = "createCliAuthRequest", !.cliAuthToken = a[1],
                                 !.createdAt = a[2], !.pre = db]
        IN /\ Free(r)
           /\ req' = [req EXCEPT ![r] =
                        IF Falsy(a[1]) \/ Falsy(a[2])
                           THEN [q EXCEPT !.pc = "done",
                                          !.res = [status |-> 400, body |-> <<>>]]
                           ELSE [q EXCEPT !.pc = "connect"]]
           /\ UNCHANGED <<db, conn, storage, nextId, now, stray>>

\* SELECT id FROM cli_auth_requests WHERE cli_auth_token = $1
selectCliAuthRequest(t, cliAuthToken) ==
    {x \in t.cli_auth_requests : x.cli_auth_token = cliAuthToken}

\* gen_random_uuid(): an id no row of the table has (rows are never deleted)
newCliAuthRequestId(t) == Cardinality(t.cli_auth_requests) + 1

\* The SELECT of createCliAuthRequest: a row with the token is answered 200
\* with its id, else the INSERT is issued.
createCliAuthRequest_select(r) ==
    LET q == req[r]
        rows == selectCliAuthRequest(Visible(q.client), q.cliAuthToken)
    IN /\ q.kind = "createCliAuthRequest" /\ q.pc = "selectCliAuthRequest"
       /\ \/ IF rows # {}
                THEN \E x \in rows :
                        Proceed(r, [q EXCEPT !.pc = "done",
                                             !.res = [status |-> 200,
                                                      body |-> [id |-> x.id]]], <<>>)
                ELSE Proceed(r, [q EXCEPT !.pc = "insertCliAuthRequest"], <<>>)
          \/ Reject(r)
       /\ UNCHANGED <<storage, nextId, now, stray>>

\* INSERT INTO cli_auth_requests (cli_auth_token, created_at, status) VALUES
\* ($1, $2, 'pending') RETURNING ..., with cli_auth_token UNIQUE: a row with
\* the token makes the statement fail with code 23505; catch answers every
\* error 500.
createCliAuthRequest_insert(r) ==
    LET q == req[r]
        c == q.client
        t == Visible(c)
        row == [id |-> newCliAuthRequestId(t), cli_auth_token |-> q.cliAuthToken,
                status |-> "pending", created_at |-> q.createdAt,
                clerk_session_token |-> NULL, clerk_user_id |-> NULL,
                convex_user_id |-> NULL]
    IN /\ q.kind = "createCliAuthRequest" /\ q.pc = "insertCliAuthRequest"
       /\ \/ IF selectCliAuthRequest(t, q.cliAuthToken) = {}
                THEN Proceed(r, [q EXCEPT !.pc = "done",
                                          !.res = [status |-> 201, body |-> row]],
                             <<[op |-> "insCliAuthRequest", row |-> row]>>)
                ELSE /\ conn[c].tx # "aborted"
                     /\ db' = db
                     /\ conn' = release(ConnAfterErr(c), c)
                     /\ req' = [req EXCEPT ![r].pc = "done", ![r].error = "23505",
                                           ![r].res = [status |-> 500, body |-> <<>>]]
          \/ Reject(r)
       /\ UNCHANGED <<storage, nextId, now, stray>>

\* <<cliAuthToken, clerkUserId, pgUserId, clerkSessionToken>> of the body
CompleteCliAuthRequestArgs ==
    {<<"t1", "clerk1", "pg1", "s1">>, <<"t1", "clerk2", "pg2", "s2">>,
     <<"t1", "clerk1", "pg1", MISSING>>}

completeCliAuthRequest(r, Args) ==
    \E a \in Args :
        LET q == [IdleReq EXCEPT !.kind = "completeCliAuthRequest",
                                 !.cliAuthToken = a[1], !.clerkUserId = a[2],
                                 !.pgUserId = a[3], !.clerkSessionToken = a[4],
                                 !.pre = db]
        IN /\ Free(r)
           /\ req' = [req EXCEPT ![r] =
                        IF Falsy(a[1]) \/ Falsy(a[2]) \/ Falsy(a[3]) \/ Falsy(a[4])
                           THEN [q EXCEPT !.pc = "done",
                                          !.res = [status |-> 400, body |-> <<>>]]
                           ELSE [q EXCEPT !.pc = "connect"]]
           /\ UNCHANGED <<db, conn, storage, nextId, now, stray>>

\* A completeCliAuthRequest whose UPDATE does not ask for a pending row.
completeCliAuthRequest_update_anyStatus(r) ==
    LET q == req[r]
        rows == selectCliAuthRequest(Visible(q.client), q.cliAuthToken)
    IN /\ q.kind = "completeCliAuthRequest" /\ q.pc = "updateCliAuthRequest"
       /\ \/ IF rows = {}
                THEN Proceed(r, [q EXCEPT !.pc = "done",
                                          !.res = [status |-> 404, body |-> <<>>]], <<>>)
                ELSE \E x \in rows :
                        LET row == [x EXCEPT !.status = "completed",
                                             !.clerk_user_id = q.clerkUserId,
                                             !.convex_user_id = q.pgUserId,
                                             !.clerk_session_token = q.clerkSessionToken]
                        IN Proceed(r, [q EXCEPT !.pc = "done",
                                                !.res = [status |-> 200, body |-> row]],
                                   <<[op |-> "updCliAuthRequest", row |-> row]>>)
          \/ Reject(r)
       /\ UNCHANGED <<storage, nextId, now, stray>>

\* UPDATE cli_auth_requests SET status = 'completed', clerk_user_id = $1,
\* convex_user_id = $2, clerk_session_token = $3, completed_at = $4 WHERE
\* cli_auth_token = $5 AND status = 'pending' RETURNING ...: one statement,
\* which the store runs as a whole; no row is answered 404, the row 200.
\* completed_at is not among the modelled columns.  The statement is also
\* rejected when $2 is no id of a users row (the foreign key).
completeCliAuthRequest_update(r) ==
    LET q == req[r]
        rows == {x \in selectCliAuthRequest(Visible(q.client), q.cliAuthToken) :
                    x.status = "pending"}
    IN /\ q.kind = "completeCliAuthRequest" /\ q.pc = "updateCliAuthRequest"
       /\ \/ IF rows = {}
                THEN Proceed(r, [q EXCEPT !.pc = "done",
                                          !.res = [status |-> 404, body |-> <<>>]], <<>>)
                ELSE \E x \in rows :
                        LET row == [x EXCEPT !.status = "completed",
                                             !.clerk_user_id = q.clerkUserId,
                                             !.convex_user_id = q.pgUserId,
                                             !.clerk_session_token = q.clerkSessionToken]
                        IN Proceed(r, [q EXCEPT !.pc = "done",
                                                !.res = [status |-> 200, body |-> row]],
                                   <<[op |-> "updCliAuthRequest", row |-> row]>>)
          \/ Reject(r)
       /\ UNCHANGED <<storage, nextId, now, stray>>

(***************************************************************************)
(* Specifications.                                                         *)
(***************************************************************************)
Init ==
    /\ db = EmptyDb
    /\ conn = [c \in Conns |-> IdleConn]
    /\ storage = <<>>
    /\ req = [r \in Reqs |-> IdleReq]
    /\ nextId = 1
    /\ now = 1
    /\ stray = {}

\* The steps of the handlers, by handler.
TransactionSteps(r) ==
    connect(r) \/ begin(r) \/ commit(r) \/ catch(r) \/ catch_rollbackRejected(r)

MutationSteps(r) ==
    \/ resolveSnapshotId_branch(r) \/ resolveSnapshotId_latest(r) \/ getFiles(r)
    \/ upload(r)
    \/ createNewSnapshot_insertSnapshot(r) \/ createNewSnapshot_insertFile(r)
    \/ updateBranchHead_step(r)

GetBranchesSteps(r) ==
    \/ getBranches_existing(r) \/ getBranches_latest(r)
    \/ getBranches_insert(r) \/ getBranches_result(r)

CreateSnapshotSteps(r) ==
    \/ createSnapshot_insertSnapshot(r) \/ createSnapshot_uploaded(r)
    \/ createSnapshot_insertFile(r)

GetBlobSteps(r) == getBlob_selectFile(r) \/ getBlob_download(r)

DeleteSnapshotSteps(r) ==
    \/ deleteSnapshot_selectFiles(r) \/ deleteSnapshot_delete(r)
    \/ deleteSnapshot_remove(r)

\* Per-file tasks that outlived their handler.
Strays == stray_uploaded \/ stray_insertFile

\* Nothing is running: no handler and no left-over task.
Quiet == stray = {} /\ \A r \in Reqs : Free(r)

\* The requests under way that will ask the store for a snapshot id.
Inflight ==
    Cardinality({r \in Reqs : ~Free(r) /\ req[r].kind \in RollbackKinds
                                /\ req[r].newSnapshotId = NULL})

\* The bounds leave room for one more request that creates a snapshot.
Room(ids, clock) ==
    /\ nextId + Inflight <= ids
    /\ now + Inflight < clock

\* Requests handled one at a time: a request arrives when nothing runs.
Arrival(r) ==
    \/ /\ Room(MaxSnap, MaxClock)
       /\ \/ createFile(r, CreateFileArgs) \/ createFolder(r, CreateFolderArgs)
          \/ deleteFile(r, DeleteFileArgs) \/ deleteFolder(r, DeleteFolderArgs)
          \/ createSnapshot(r, CreateSnapshotArgs)
    \/ getBranches(r)

Next ==
    \/ Quiet /\ Arrival(1)
    \/ TransactionSteps(1) \/ rollback404(1) \/ MutationSteps(1)
    \/ GetBranchesSteps(1) \/ CreateSnapshotSteps(1) \/ Strays

Spec == Init /\ [][Next]_vars

\* The same with snapshots deleted in between.
DeleteArrival(r) ==
    \/ /\ Room(MaxSnap, MaxClock)
       /\ \/ createFile(r, {<<"main", P_abf, "aGVsbG8=", UserId>>})
          \/ createFolder(r, {<<"main", P_ab, MISSING, UserId>>})
          \/ deleteFile(r, {<<"main", P_abf, MISSING, UserId>>})
          \/ deleteFolder(r, {<<"main", P_ab, MISSING, UserId>>})
          \/ createSnapshot(r, {a \in CreateSnapshotArgs : a[2] = FutureTimestamp})
    \/ getBranches(r)
    \/ deleteSnapshot(r, 1..MaxSnap)

NextDelete ==
    \/ Quiet /\ DeleteArrival(1)
    \/ TransactionSteps(1) \/ rollback404(1) \/ MutationSteps(1)
    \/ GetBranchesSteps(1) \/ CreateSnapshotSteps(1) \/ Strays
    \/ DeleteSnapshotSteps(1)

SpecDelete == Init /\ [][NextDelete]_vars

\* Edits and bulk uploads read back with getBlob, one request at a time.
ReadArrival(r) ==
    \/ /\ Room(MaxSnap, MaxClock)
       /\ \/ createFile(r, CreateFileArgs)
          \/ createSnapshot(r, {a \in CreateSnapshotArgs : a[2] = FutureTimestamp})
    \/ getBranches(r)
    \/ getBlob(r, GetBlobArgs)

NextRead ==
    \/ Quiet /\ ReadArrival(1)
    \/ TransactionSteps(1) \/ MutationSteps(1)
    \/ GetBranchesSteps(1) \/ CreateSnapshotSteps(1) \/ Strays
    \/ GetBlobSteps(1)

SpecRead == Init /\ [][NextRead]_vars

\* Edits of one branch under way at the same time: a createFile request
\* arrives at a free slot whatever the other slots do.
ConcArgs ==
    {<<"main", P_abf, "aGVsbG8=", UserId>>, <<"main", P_abce, "d29ybGQ=", UserId>>}

\* The project gets its first snapshot and its branch main before the
\* requests overlap; of the free slots the first is taken.
NextConc ==
    \/ /\ Quiet
       /\ \/ /\ nextId = 1 /\ Room(MaxSnap + 1, MaxClock + 1)
             /\ createFile(1, {<<"main", P_f, "aGVsbG8=", UserId>>})
          \/ nextId > 1 /\ getBranches(1)
    \/ \E r \in Reqs :
          \/ /\ nextId > 1 /\ db.branches # {}
             /\ Room(MaxSnap + 1, MaxClock + 1)
             /\ \A r2 \in Reqs : r2 < r => ~Free(r2)
             /\ createFile(r, ConcArgs)
          \/ connect(r) \/ begin(r) \/ commit(r) \/ catch(r)
          \/ MutationSteps(r) \/ GetBranchesSteps(r)

SpecConc == Init /\ [][NextConc]_vars

\* Trees listed between edits, bulk uploads and branch listings, one
\* request at a time.
TreeArrival(r) ==
    \/ /\ Room(MaxSnap, MaxClock)
       /\ \/ createFile(r, {<<"main", P_abf, "aGVsbG8=", UserId>>,
                             <<"main", P_a, "d29ybGQ=", UserId>>})
          \/ createFolder(r, {<<"main", P_ab, MISSING, UserId>>})
          \/ createSnapshot(r, {a \in CreateSnapshotArgs :
                                   a[2] = 1 /\ \A i \in 1..Len(a[1]) :
                                                  a[1][i].content = MISSING})
    \/ getBranches(r)
    \/ getTree(r, GetTreeArgs)
    \/ getBlob(r, {<<"dev", P_abf>>, <<MISSING, P_a>>})

NextTree ==
    \/ Quiet /\ TreeArrival(1)
    \/ TransactionSteps(1) \/ MutationSteps(1) \/ GetBranchesSteps(1)
    \/ createSnapshot_insertSnapshot(1) \/ createSnapshot_insertFile(1)
    \/ getTree_select(1) \/ GetBlobSteps(1)

SpecTree == Init /\ [][NextTree]_vars

\* A write, then a read of what it wrote: the requests that write are handled
\* in slot 1 and getTree / getBlob in slot 2, one request at a time, so that
\* the slot of the last write still shows it while the read runs.
FutureBulk == <<<<FileData(P_f, "hello", FALSE)>>, FutureTimestamp>>

VisibleArrival ==
    \/ /\ Room(MaxSnap, MaxClock)
       /\ \/ createFile(1, {<<"main", P_a, "d29ybGQ=", UserId>>})
          \/ createFolder(1, {<<"main", P_a, MISSING, UserId>>})
          \/ deleteFile(1, {<<"main", P_f, MISSING, UserId>>})
          \/ createSnapshot(1, {FutureBulk})
    \/ getBranches(1)
    \/ getTree(2, {<<"main", <<>>>>, <<"main", P_a>>})
    \/ getBlob(2, {<<"main", P_a>>})

NextVisible ==
    \/ Quiet /\ VisibleArrival
    \/ \E r \in Reqs :
          connect(r) \/ resolveSnapshotId_branch(r) \/ resolveSnapshotId_latest(r)
    \/ begin(1) \/ commit(1) \/ catch(1) \/ catch_rollbackRejected(1)
    \/ rollback404(1) \/ getFiles(1) \/ upload(1)
    \/ createNewSnapshot_insertSnapshot(1) \/ createNewSnapshot_insertFile(1)
    \/ updateBranchHead_step(1)
    \/ GetBranchesSteps(1)
    \/ createSnapshot_insertSnapshot(1) \/ createSnapshot_insertFile(1)
    \/ getTree_select(2) \/ GetBlobSteps(2)

SpecVisible == Init /\ [][NextVisible]_vars

\* createOrGetUser requests under way at the same time: a request arrives
\* at the first free slot whatever the other slots do.
NextUsers ==
    \E r \in Reqs :
        \/ /\ \A r2 \in Reqs : r2 < r => ~Free(r2)
           /\ createOrGetUser(r, CreateOrGetUserArgs)
        \/ connect(r)
        \/ createOrGetUser_select(r) \/ createOrGetUser_update(r)
        \/ createOrGetUser_insert(r)

SpecUsers == Init /\ [][NextUsers]_vars

\* Every handler of the code and snapshot routes, one request at a time, the
\* store failing at any await, pool.connect() included.
RespondArrival(r) ==
    \/ /\ Room(MaxSnap, MaxClock)
       /\ \/ createFile(r, {<<"main", P_a, "d29ybGQ=", UserId>>})
          \/ createFolder(r, {<<"main", P_a, MISSING, UserId>>})
          \/ deleteFile(r, {<<"main", P_a, MISSING, UserId>>})
          \/ deleteFolder(r, {<<"main", P_a, MISSING, UserId>>})
          \/ createSnapshot(r, {FutureBulk})
    \/ getBranches(r)
    \/ getTree(r, {<<"main", <<>>>>})
    \/ getBlob(r, {<<"main", P_a>>})
    \/ deleteSnapshot(r, {1})

NextRespond ==
    \/ Quiet /\ RespondArrival(1)
    \/ connect_rejected(1)
    \/ TransactionSteps(1) \/ rollback404(1) \/ MutationSteps(1)
    \/ GetBranchesSteps(1)
    \/ createSnapshot_insertSnapshot(1) \/ createSnapshot_insertFile(1)
    \/ getTree_select(1) \/ GetBlobSteps(1) \/ DeleteSnapshotSteps(1)

SpecRespond == Init /\ [][NextRespond]_vars

\* getBranches requests under way at once, on a project that has no branch
\* row and gets its snapshots from bulk uploads.
NextBranches ==
    \/ Quiet /\ Room(MaxSnap, MaxClock) /\ createSnapshot(1, {FutureBulk})
    \/ begin(1) \/ commit(1) \/ catch(1)
    \/ createSnapshot_insertSnapshot(1) \/ createSnapshot_insertFile(1)
    \/ \E r \in Reqs :
          \/ /\ \A r2 \in Reqs : r2 < r => ~Free(r2)
             /\ getBranches(r)
          \/ connect(r) \/ GetBranchesSteps(r)

SpecBranches == Init /\ [][NextBranches]_vars

\* Snapshots that all come from bulk uploads with content, so that every
\* file row has its object in the blob store, and their deletion.
NextBlobs ==
    \/ /\ Quiet
       /\ \/ /\ Room(MaxSnap, MaxClock)
             /\ createSnapshot(1, {a \in CreateSnapshotArgs : a[2] = FutureTimestamp})
          \/ deleteSnapshot(1, 1..MaxSnap)
    \/ TransactionSteps(1) \/ rollback404(1)
    \/ CreateSnapshotSteps(1) \/ Strays \/ DeleteSnapshotSteps(1)

SpecBlobs == Init /\ [][NextBlobs]_vars

\* CLI auth requests created and completed, requests under way at once; of
\* the free slots the first is taken.
NextCliAuth ==
    \E r \in Reqs :
        \/ /\ \A r2 \in Reqs : r2 < r => ~Free(r2)
           /\ \/ createCliAuthRequest(r, CreateCliAuthRequestArgs)
              \/ completeCliAuthRequest(r, CompleteCliAuthRequestArgs)
        \/ connect(r)
        \/ createCliAuthRequest_select(r) \/ createCliAuthRequest_insert(r)
        \/ completeCliAuthRequest_update(r)

SpecCliAuth == Init /\ [][NextCliAuth]_vars

\* One CLI auth request, created (and created again) in slot 1, and the
\* calls that complete it, under way at once.
NextComplete ==
    \/ createCliAuthRequest(1, {<<"t1", "1">>})
    \/ createCliAuthRequest_select(1) \/ createCliAuthRequest_insert(1)
    \/ \E r \in Reqs :
          \/ /\ \A r2 \in Reqs : r2 < r => ~Free(r2)
             /\ db.cli_auth_requests # {}
             /\ completeCliAuthRequest(r, {a \in CompleteCliAuthRequestArgs :
                                               ~Falsy(a[4])})
          \/ connect(r) \/ completeCliAuthRequest_update(r)

SpecComplete == Init /\ [][NextComplete]_vars

\* Bulk uploads one after the other, the next one arriving as soon as the
\* one before is answered, whether or not per-file tasks of it still run.
BulkArrival(r) ==
    /\ \A r2 \in Reqs : Free(r2)
    /\ Room(MaxSnap, MaxClock)
    /\ createSnapshot(r, CreateSnapshotArgs)

NextBulk ==
    \/ BulkArrival(1)
    \/ TransactionSteps(1) \/ CreateSnapshotSteps(1) \/ Strays

SpecBulk == Init /\ [][NextBulk]_vars

(***************************************************************************)
(* Properties.                                                             *)
(***************************************************************************)
\* The file rows of snapshot id in the tables t, as (path, hash, size, mode).
FileSet(t, id) ==
    {[path |-> t.snapshot_files[i].path, hash |-> t.snapshot_files[i].hash,
      size |-> t.snapshot_files[i].size, mode |-> t.snapshot_files[i].mode] :
        i \in {j \in DOMAIN t.snapshot_files : t.snapshot_files[j].snapshot_id = id}}

\* The file rows of snapshot id in the tables t, in table order.
FileRows(t, id) == SelectSeq(t.snapshot_files, LAMBDA f : f.snapshot_id = id)

\* The request has been answered with a success status.
Succeeded(q) == q.pc = "done" /\ q.res.status \in {200, 201}

\* The prefix deleteFolder matches paths against.
FolderPrefix(p) == IF p[Len(p)] = SLASH THEN p ELSE p \o <<SLASH>>

\* The row a createFile / createFolder request adds.
AddedRow(q) ==
    IF q.kind = "createFile"
       THEN [path |-> q.path, hash |-> sha256(Base64Decode(q.content)),
             size |-> byteLength(Base64Decode(q.content)), mode |-> 644]
       ELSE [path |-> q.path \o <<SLASH>> \o GITKEEP, hash |-> "e3b0c442",
             size |-> 0, mode |-> 644]

\* The file set the mutation q is to produce from the file set old, where
\* deleteFolder removes the paths that start with prefix.
Delta(q, old, prefix) ==
    CASE q.kind \in CreateKinds ->
            {f \in old : f.path # AddedRow(q).path} \cup {AddedRow(q)}
      [] q.kind = "deleteFile" -> {f \in old : f.path # q.path}
      [] q.kind = "deleteFolder" -> {f \in old : ~startsWith(f.path, prefix)}

\* A mutation request that was answered with the id of a snapshot.
Mutated(q) == q.kind \in MutationKinds /\ Succeeded(q)

C2_Immutability ==
    [][\A s \in db.snapshots :
          (\E s2 \in db'.snapshots : s2.id = s.id) =>
              FileRows(db', s.id) = FileRows(db, s.id)]_vars

\* A deleteFolder built an empty snapshot from a snapshot that still has
\* its file rows.
C2_Witness ==
    \E r \in Reqs :
        /\ req[r].kind = "deleteFolder" /\ Succeeded(req[r])
        /\ FileSet(db, req[r].currentSnapshotId) # {}
        /\ \E s \in db.snapshots : s.id = req[r].newSnapshotId
        /\ FileSet(db, req[r].newSnapshotId) = {}

\* The awaits of a mutation that are relational writes.
RelationalWrites == {"insertSnapshot", "insertFiles", "updateBranchHead", "COMMIT"}

(* C3: when the snapshot insert, a file-row insert, the head update or the  *)
(* commit of a mutation is rejected, the tables are, once the request has   *)
(* finished, what they were when it arrived and the response is no success; *)
(* so they are after every mutation that did not succeed; and every visible *)
(* snapshot has as many file rows as its header counts.                     *)
C3_Atomicity ==
    /\ \A r \in Reqs :
          (/\ req[r].kind \in MutationKinds /\ req[r].pc = "done"
           /\ req[r].error \in RelationalWrites) =>
              db = req[r].pre /\ ~Succeeded(req[r])
    /\ \A r \in Reqs :
          (req[r].kind \in MutationKinds /\ req[r].pc = "done" /\ ~Succeeded(req[r])) =>
              db = req[r].pre
    /\ \A s \in db.snapshots : Len(FileRows(db, s.id)) = s.file_count

\* The commit of a createFile that had inserted a snapshot of two files and
\* updated the head of main was rejected.
C3_Witness ==
    \E r \in Reqs :
        /\ req[r].kind = "createFile" /\ req[r].pc = "done"
        /\ req[r].error = "COMMIT" /\ req[r].res.status = 500
        /\ req[r].newSnapshotId # NULL /\ Len(req[r].allFiles) = 2
        /\ selectBranch(db, ProjectId, req[r].branch) # {}
        /\ db = req[r].pre

(* C4, as stated: in every reachable state no snapshot has two file rows    *)
(* with the same path.                                                       *)
C4_PathUniqueness ==
    \A i, j \in DOMAIN db.snapshot_files :
        (/\ db.snapshot_files[i].snapshot_id = db.snapshot_files[j].snapshot_id
         /\ db.snapshot_files[i].path = db.snapshot_files[j].path) => i = j

C6_UploadFailureAborts ==
    \A r \in Reqs :
        (req[r].kind = "createFile" /\ req[r].pc = "done" /\ req[r].uploadError) =>
            /\ req[r].newSnapshotId = NULL /\ req[r].ts = 0
            /\ db = req[r].pre
            /\ conn[req[r].client] = IdleConn
            /\ req[r].error = "upload" => req[r].res.status = 500

\* The upload of a createFile on a branch with a head failed.
C6_Witness ==
    \E r \in Reqs :
        /\ req[r].kind = "createFile" /\ req[r].pc = "done" /\ req[r].uploadError
        /\ req[r].res.status = 500
        /\ req[r].currentSnapshotId # NULL
        /\ \E b \in selectBranch(db, ProjectId, req[r].branch) :
              b.head_snapshot_id = req[r].currentSnapshotId

\* Request r2 is a createFile that resolved the snapshot r resolved, has
\* committed, and added a row other than the one r adds.
Raced(r, r2) ==
    /\ r2 # r
    /\ req[r2].kind = "createFile" /\ Succeeded(req[r2])
    /\ req[r2].currentSnapshotId = req[r].currentSnapshotId
    /\ req[r].currentSnapshotId # NULL
    /\ AddedRow(req[r2]) # AddedRow(req[r])

CreatedOnFreshProject(path) ==
    /\ nextId = 2
    /\ \E s \in db.snapshots :
          /\ db.snapshots = {s}
          /\ \E f \in FileSet(db, s.id) :
                /\ FileSet(db, s.id) = {f}
                /\ f.path = path
                /\ DOMAIN storage = {uploadKey(ProjectId, f.hash)}
                /\ f.hash = sha256(storage[uploadKey(ProjectId, f.hash)])

(* C8, as stated: getBlob of the path a createFile on a fresh project wrote *)
(* answers, where no statement of it is rejected, with the hash of the      *)
(* uploaded bytes and with a content that decodes to them.                  *)
C8_CreateThenRead ==
    \A r \in Reqs :
        (/\ req[r].kind = "getBlob" /\ req[r].pc = "done" /\ req[r].error = "none"
         /\ req[r].branch = "main"
         /\ CreatedOnFreshProject(req[r].path)) =>
            /\ req[r].res.status = 200
            /\ req[r].res.body.hash = sha256(storage[uploadKey(ProjectId,
                                                req[r].res.body.hash)])
            /\ req[r].res.body.content # MISSING
            /\ Base64Decode(req[r].res.body.content) =
                  storage[uploadKey(ProjectId, req[r].res.body.hash)]

\* The delete request q matches no row of the file set old.
MatchesNothing(q, old) ==
    IF q.kind = "deleteFile"
       THEN \A f \in old : f.path # q.path
       ELSE \A f \in old : ~startsWith(f.path, FolderPrefix(q.path))

(* C9: a deleteFile / deleteFolder that resolved a snapshot in which its    *)
(* path / prefix matches no row has, once finished, created no snapshot     *)
(* (createNewSnapshot was not entered), left the tables, and with them      *)
(* every head, as they were when it arrived, and, where no statement was    *)
(* rejected, answered 404.                                                   *)
C9_DeleteOfNothing ==
    \A r \in Reqs :
        (/\ req[r].kind \in DeleteKinds /\ req[r].pc = "done"
         /\ req[r].currentSnapshotId # NULL
         /\ MatchesNothing(req[r], FileSet(req[r].pre, req[r].currentSnapshotId))) =>
            /\ req[r].newSnapshotId = NULL /\ req[r].ts = 0
            /\ db = req[r].pre
            /\ req[r].error = "none" => req[r].res.status = 404

\* deleteFolder of a/b was answered 404 on a snapshot that has files, none
\* of them under a/b/.
C9_Witness ==
    \E r \in Reqs :
        /\ req[r].kind = "deleteFolder" /\ req[r].pc = "done"
        /\ req[r].res.status = 404
        /\ req[r].currentSnapshotId # NULL
        /\ FileSet(db, req[r].currentSnapshotId) # {}
        /\ req[r].existingFiles # <<>>

(* C10, as stated: the snapshot of a successful deleteFolder(p) has no file *)
(* whose path starts with p + "/" and has every file of the resolved        *)
(* snapshot whose path does not start with p + "/", with its hash, size and *)
(* mode.                                                                     *)
C10_PrefixWithSlashAppended ==
    \A r \in Reqs :
        (req[r].kind = "deleteFolder" /\ Succeeded(req[r])) =>
            /\ \A f \in FileSet(db, req[r].newSnapshotId) :
                  ~startsWith(f.path, req[r].path \o <<SLASH>>)
            /\ \A f \in FileSet(req[r].pre, req[r].currentSnapshotId) :
                  ~startsWith(f.path, req[r].path \o <<SLASH>>)
                      => f \in FileSet(db, req[r].newSnapshotId)

(* C10, amended: the snapshot of a successful deleteFolder(p) has no file   *)
(* whose path starts with the folder prefix (p + "/", or p itself when p    *)
(* already ends with "/") and has every file of the resolved snapshot whose *)
(* path does not start with it, with its hash, size and mode.               *)
C10_PrefixCompleteness ==
    \A r \in Reqs :
        (req[r].kind = "deleteFolder" /\ Succeeded(req[r])) =>
            /\ \A f \in FileSet(db, req[r].newSnapshotId) :
                  ~startsWith(f.path, FolderPrefix(req[r].path))
            /\ \A f \in FileSet(req[r].pre, req[r].currentSnapshotId) :
                  ~startsWith(f.path, FolderPrefix(req[r].path))
                      => f \in FileSet(db, req[r].newSnapshotId)

\* deleteFolder of a/b removed a/b/c/d and kept a/bc/e.
C10_Witness ==
    \E r \in Reqs :
        /\ req[r].kind = "deleteFolder" /\ Succeeded(req[r])
        /\ req[r].path = P_ab
        /\ \E f \in FileSet(req[r].pre, req[r].currentSnapshotId) : f.path = P_abcd
        /\ \E f \in FileSet(req[r].pre, req[r].currentSnapshotId) : f.path = P_abce
        /\ {f.path : f \in FileSet(db, req[r].newSnapshotId)} = {P_abce}

(***************************************************************************)
(* Resolution, heads, connections.                                         *)
(***************************************************************************)
\* The awaits of resolveSnapshotId.
ResolvePcs == {"resolveBranch", "resolveLatest"}

\* The ids of the snapshots of the project that no snapshot of the project
\* is newer than; NULL when it has none.
MostRecent(t) ==
    LET own == {s \in t.snapshots : s.project_id = ProjectId}
    IN IF own = {} THEN {NULL}
       ELSE {s.id : s \in {x \in own : ~\E y \in own : y.timestamp > x.timestamp}}

\* The non-null heads of the rows of branches for the branch name.
HeadsOf(t, branch) ==
    {b.head_snapshot_id : b \in {x \in t.branches :
        x.project_id = ProjectId /\ x.name = branch /\ x.head_snapshot_id # NULL}}

(* C11: when resolveSnapshotId returns to a handler (no query of it having  *)
(* been rejected), the result is the head of the branch where a branch name *)
(* was given and its row has a non-null head, and else a snapshot of the    *)
(* project with the greatest timestamp, or null when the project has none.  *)
C11_ResolveSnapshotId ==
    [][\A r \in Reqs :
          (/\ req[r].pc \in ResolvePcs /\ req'[r].pc \notin ResolvePcs
           /\ req'[r].error = "none") =>
              IF req[r].branch \notin {MISSING, ""} /\ HeadsOf(db, req[r].branch) # {}
                 THEN req'[r].currentSnapshotId \in HeadsOf(db, req[r].branch)
                 ELSE req'[r].currentSnapshotId \in MostRecent(db)]_vars

\* getBlob on main resolved the head of main while the project has a newer
\* snapshot.
C11_Witness ==
    \E r \in Reqs :
        /\ req[r].kind = "getBlob" /\ req[r].pc = "done" /\ req[r].branch = "main"
        /\ req[r].currentSnapshotId \in HeadsOf(db, "main")
        /\ req[r].currentSnapshotId \notin MostRecent(db)

Holds(r, c) == req[r].client = c /\ req[r].pc \notin {"idle", "connect", "done"}

(* C13: a connection is checked out of the pool exactly while one handler   *)
(* runs between its connect and its end, whichever way the handler ends     *)
(* (success, 404, 500); so with every request finished no connection is     *)
(* checked out.                                                              *)
C13_ConnectionDiscipline ==
    \A c \in Conns :
        /\ conn[c].busy <=> \E r \in Reqs : Holds(r, c)
        /\ \A r1, r2 \in Reqs : Holds(r1, c) /\ Holds(r2, c) => r1 = r2

\* A delete handler that had a connection answered 404, and no connection
\* is checked out.
C13_Witness ==
    \E r \in Reqs :
        /\ req[r].kind \in DeleteKinds \cup {"deleteSnapshot"}
        /\ req[r].pc = "done" /\ req[r].res.status = 404
        /\ req[r].client \in Conns
        /\ \A c \in Conns : ~conn[c].busy

(* C14, as stated: no connection is in the pool (released) with a           *)
(* transaction still open or aborted: whenever a statement after BEGIN was  *)
(* rejected, the handler has rolled back before it released.                *)
C14_RollbackBeforeRelease ==
    \A c \in Conns : ~conn[c].busy => conn[c].tx = "none"

\* createFolder request q has finished, the upload of its placeholder
\* returned an error, and the store rejected no statement of it.
PlaceholderUploadFailed(q) ==
    /\ q.kind = "createFolder" /\ q.pc = "done" /\ q.uploadError
    /\ q.error \in {"none", "upload"}

\* The request committed a snapshot that has the placeholder row.
CommittedPlaceholder(q) ==
    /\ q.res.status = 201
    /\ \E s \in db.snapshots : s.id = q.newSnapshotId /\ s.id = q.res.body.snapshotId
    /\ [path |-> q.path \o <<SLASH>> \o GITKEEP, hash |-> "e3b0c442",
        size |-> 0, mode |-> 644] \in FileSet(db, q.newSnapshotId)

C16_ContentAddressing ==
    /\ \A k1, k2 \in DOMAIN storage :
          (k1[1] = k2[1] /\ storage[k1] = storage[k2]) => k1 = k2
    /\ \A k \in DOMAIN storage : k[Len(k)] = sha256(storage[k])

\* The bytes of hash were uploaded for the project and are still stored.
Uploaded(hash) ==
    \E k \in DOMAIN storage : k[1] = ProjectId /\ k[Len(k)] = hash

(* C17, as stated: where getBlob found the file row in the snapshot it      *)
(* resolved and the content of the row was uploaded and not removed, the    *)
(* key getBlob downloads from is a key the content is stored under.         *)
C17_DownloadKeyIsUploadKey ==
    \A r \in Reqs :
        (/\ req[r].kind = "getBlob" /\ req[r].pc = "done" /\ req[r].res.status = 200
         /\ Uploaded(req[r].file.hash)) =>
            LET k == downloadKey(ProjectId, req[r].currentSnapshotId, req[r].file.hash)
            IN k \in DOMAIN storage /\ sha256(storage[k]) = req[r].file.hash

\* The rows of branches of the project in the tables t.
BranchRows(t) == {b \in t.branches : b.project_id = ProjectId}

(* C18: a getBranches none of whose statements was rejected answers 200     *)
(* with the branch rows of the project and leaves snapshots and file rows   *)
(* alone; on a project with no branch row it has created exactly one row,   *)
(* named main, whose head is a most recent snapshot of the project (null    *)
(* when there is none); on a project with a branch row it has created no    *)
(* row and changed no head, so that further calls change nothing.           *)
C18_EnsureBranchIdempotent ==
    \A r \in Reqs :
        (req[r].kind = "getBranches" /\ req[r].pc = "done" /\ req[r].error = "none") =>
            /\ req[r].res.status = 200 /\ req[r].res.body = BranchRows(db)
            /\ db.snapshots = req[r].pre.snapshots
            /\ db.snapshot_files = req[r].pre.snapshot_files
            /\ IF BranchRows(req[r].pre) = {}
                  THEN \E head \in MostRecent(req[r].pre) :
                          db.branches = req[r].pre.branches \cup
                              {[project_id |-> ProjectId, name |-> "main",
                                head_snapshot_id |-> head]}
                  ELSE db.branches = req[r].pre.branches

\* getBranches was called on a project whose main has a head, and changed
\* nothing.
C18_Witness ==
    \E r \in Reqs :
        /\ req[r].kind = "getBranches" /\ req[r].pc = "done" /\ req[r].error = "none"
        /\ \E b \in BranchRows(req[r].pre) : b.name = "main" /\ b.head_snapshot_id # NULL
        /\ Cardinality(BranchRows(db)) = 1
        /\ req[r].res.body = BranchRows(req[r].pre)

\* The project has no snapshot in the tables t.
EmptyProject(t) == ~\E s \in t.snapshots : s.project_id = ProjectId

(* C19: on a project with no snapshots a getTree none of whose queries was  *)
(* rejected has answered 200 with an empty list, whatever its branch name   *)
(* and base path, and a getBlob has answered 404.                           *)
C19_EmptyProjectTree ==
    \A r \in Reqs :
        (/\ req[r].kind \in {"getTree", "getBlob"} /\ req[r].pc = "done"
         /\ req[r].error = "none" /\ EmptyProject(req[r].pre)) =>
            IF req[r].kind = "getTree"
               THEN req[r].res = [status |-> 200, body |-> <<>>]
               ELSE req[r].res.status = 404

\* getTree of a folder on main, whose row has a null head, of a project
\* without snapshots was answered with the empty list.
C19_Witness ==
    \E r \in Reqs :
        /\ req[r].kind = "getTree" /\ req[r].pc = "done"
        /\ req[r].branch = "main" /\ req[r].path = P_ab
        /\ db.snapshots = {}
        /\ \E b \in selectBranch(db, ProjectId, "main") : b.head_snapshot_id = NULL
        /\ req[r].res = [status |-> 200, body |-> <<>>]

\* The path p without its leading and trailing slashes.
Stripped(p) ==
    LET inner == {i \in 1..Len(p) : p[i] # SLASH}
    IN IF inner = {} THEN <<>>
       ELSE SubSeq(p, CHOOSE i \in inner : \A j \in inner : i <= j,
                      CHOOSE i \in inner : \A j \in inner : j <= i)

\* The files of the set fs below the base path: all of them for the empty
\* base path, else those whose path starts with base + "/".
Below(fs, base) ==
    IF base = <<>> THEN fs ELSE {f \in fs : startsWith(f.path, base \o <<SLASH>>)}

\* The path of f relative to the base path it lies below.
Relative(f, base) ==
    IF base = <<>> THEN f.path ELSE SubSeq(f.path, Len(base) + 2, Len(f.path))

\* The separators of the path p.
Separators(p) == {i \in 1..Len(p) : p[i] = SLASH}

\* The first segment of the relative path p.
FirstSegment(p) ==
    IF Separators(p) = {} THEN p
    ELSE SubSeq(p, 1, (CHOOSE i \in Separators(p) : \A j \in Separators(p) : i <= j) - 1)

\* The list of entries is the list of the direct children of base among
\* the files fs: one entry for every first segment, none for anything else,
\* a file where a file of that name lies at this level and a dir where
\* files lie below the name, and no name twice.
DirectChildren(entries, fs, base) ==
    /\ {entries[i].name : i \in 1..Len(entries)} =
          {FirstSegment(Relative(f, base)) : f \in Below(fs, base)}
    /\ \A i, j \in 1..Len(entries) : entries[i].name = entries[j].name => i = j
    /\ \A i \in 1..Len(entries) :
          \E f \in Below(fs, base) :
              /\ FirstSegment(Relative(f, base)) = entries[i].name
              /\ entries[i].type = IF Separators(Relative(f, base)) = {} THEN "file"
                                                                          ELSE "dir"

(* C20, as stated: the entries a getTree answers for the snapshot it        *)
(* resolved are the direct children of the base path, stripped of leading   *)
(* and trailing slashes, among the files of that snapshot.                  *)
C20_DirectChildren ==
    \A r \in Reqs :
        (/\ req[r].kind = "getTree" /\ req[r].pc = "done" /\ req[r].res.status = 200
         /\ req[r].currentSnapshotId # NULL) =>
            DirectChildren(req[r].res.body, FileSet(db, req[r].currentSnapshotId),
                           Stripped(req[r].path))

\* Request r is answered by this step.
Answered(r) == req[r].pc # "done" /\ req'[r].pc = "done"

\* The entries of the listing that answers request r in this step.
Listing(r) == {req'[r].res.body[i] : i \in DOMAIN req'[r].res.body}

\* C21 (folder visibility): a getTree of branch b that is answered 200, the
\* last write before it being a successful createFolder(b, p) with p a name
\* without separator, lists {name: p, type: dir} at the root and
\* {name: .gitkeep, type: file, size: 0} at base path p.
C21_FolderVisibility ==
    [][(/\ req[1].kind = "createFolder" /\ Succeeded(req[1])
        /\ indexOfSlash(req[1].path) = 0
        /\ req[2].kind = "getTree" /\ req[2].branch = req[1].branch
        /\ Answered(2) /\ req'[2].res.status = 200)
       => /\ getTree_basePath(req[2].path) = <<>>
                => [name |-> req[1].path, type |-> "dir"] \in Listing(2)
          /\ getTree_basePath(req[2].path) = req[1].path
                => [name |-> GITKEEP, type |-> "file", size |-> 0] \in Listing(2)]_vars

\* The snapshot ids resolveSnapshotId can return for the branch in tables t.
Resolves(t, branch) ==
    IF branch \notin {MISSING, ""} /\ HeadsOf(t, branch) # {}
       THEN HeadsOf(t, branch)
       ELSE MostRecent(t)

\* The metadata of the body of a getBlob answer.
Metadata(body) ==
    [path |-> body.path, hash |-> body.hash, size |-> body.size, mode |-> body.mode]

(* C22: a getBlob none of whose statements is rejected answers 404 exactly  *)
(* when no snapshot resolves or the resolved snapshot has no file row with  *)
(* exactly the path, and else 200 with the path, hash, size and mode of     *)
(* such a row; when the download fails (as it must with nothing stored      *)
(* under the key) the content is null and a message is given, and a message *)
(* is given only then.                                                       *)
C22_MetadataWithoutContent ==
    \A r \in Reqs :
        (req[r].kind = "getBlob" /\ req[r].pc = "done" /\ req[r].error = "none") =>
            LET q == req[r]
                rows == {f \in FileSet(q.pre, q.currentSnapshotId) : f.path = q.path}
            IN /\ q.currentSnapshotId \in Resolves(q.pre, q.branch)
               /\ q.res.status = IF q.currentSnapshotId = NULL \/ rows = {}
                                    THEN 404 ELSE 200
               /\ q.res.status = 200 =>
                     /\ Metadata(q.res.body) \in rows
                     /\ downloadKey(ProjectId, q.currentSnapshotId, q.res.body.hash)
                           \notin DOMAIN storage => q.res.body.content = MISSING
                     /\ q.res.body.content = MISSING <=> q.res.body.message # MISSING
                     /\ q.res.body.message # ""

\* getBlob answered 200 with the metadata of the row and without content
\* although the object is stored under the key: the download failed.
C22_Witness ==
    \E r \in Reqs :
        /\ req[r].kind = "getBlob" /\ req[r].pc = "done" /\ req[r].res.status = 200
        /\ Metadata(req[r].res.body) \in FileSet(db, req[r].currentSnapshotId)
        /\ downloadKey(ProjectId, req[r].currentSnapshotId, req[r].res.body.hash)
              \in DOMAIN storage
        /\ req[r].res.body.content = MISSING
        /\ req[r].res.body.message # MISSING

\* The snapshot that deleteSnapshot request q names existed when q arrived.
Existed(q) == \E s \in q.pre.snapshots : s.id = q.id

(* C23: a deleteSnapshot none of whose statements is rejected answers 200   *)
(* when the snapshot existed, and then the snapshot row and all its file    *)
(* rows are gone whether or not the blob-store remove failed, and answers   *)
(* 404 when it did not exist; no step of a deleteSnapshot of a snapshot     *)
(* that did not exist changes the tables or the blob store.                 *)
C23_BestEffortRemoval ==
    [][\A r \in Reqs :
          req[r].kind = "deleteSnapshot" =>
             /\ (Answered(r) /\ req'[r].error = "none") =>
                   IF Existed(req[r])
                      THEN /\ req'[r].res.status = 200
                           /\ ~\E s \in db'.snapshots : s.id = req[r].id
                           /\ FileRows(db', req[r].id) = <<>>
                      ELSE req'[r].res.status = 404
             /\ (req[r].pc # "done" /\ ~Existed(req[r])) =>
                   db' = db /\ storage' = storage]_vars

\* deleteSnapshot answered 200 and the snapshot and its file rows are gone,
\* while an object of one of its files is still stored: the remove failed.
C23_Witness ==
    \E r \in Reqs :
        /\ req[r].kind = "deleteSnapshot" /\ req[r].pc = "done"
        /\ req[r].res.status = 200
        /\ FileRows(req[r].pre, req[r].id) # <<>>
        /\ FileRows(db, req[r].id) = <<>>
        /\ ~\E s \in db.snapshots : s.id = req[r].id
        /\ \E i \in DOMAIN req[r].existingFiles :
              bulkKey(ProjectId, req[r].id, req[r].existingFiles[i].hash) \in DOMAIN storage

\* deleteSnapshot of a snapshot that does not exist answered 404.
C23_WitnessNotFound ==
    \E r \in Reqs :
        /\ req[r].kind = "deleteSnapshot" /\ req[r].pc = "done"
        /\ ~Existed(req[r]) /\ req[r].res.status = 404
        /\ db.snapshots # {} /\ DOMAIN storage # {}

\* The file rows of the payload of bulk request q, as rows of its snapshot.
SubmittedRows(q) == [i \in DOMAIN q.files |-> fileRow(q.newSnapshotId, q.files[i])]

\* Sequences a and b hold the same elements the same number of times.
SameBag(a, b) ==
    /\ Len(a) = Len(b)
    /\ \A x \in {a[i] : i \in DOMAIN a} \cup {b[i] : i \in DOMAIN b} :
          Cardinality({i \in DOMAIN a : a[i] = x}) = Cardinality({i \in DOMAIN b : b[i] = x})

MissingField(q) ==
    CASE q.kind \in MutationKinds ->
            \/ q.branch \in {MISSING, ""} \/ q.path = <<>> \/ q.userId \in {MISSING, ""}
            \/ (q.kind = "createFile" /\ q.content = MISSING)
      [] q.kind = "createSnapshot" -> q.timestamp = 0
      [] OTHER -> FALSE

(* C25 (validation failures touch nothing): a createFile, createFolder,     *)
(* deleteFile, deleteFolder or bulk createSnapshot request that lacks a     *)
(* required field is answered 400 by the step it arrives with, which takes  *)
(* no client from the pool and changes neither the tables nor the blob      *)
(* store; such a request never holds a client and takes no further step.    *)
C25_ValidationTouchesNothing ==
    [][\A r \in Reqs :
          /\ MissingField(req[r]) =>
                req[r].pc = "done" /\ req[r].res.status = 400 /\ req[r].client = 0
          /\ (req'[r] # req[r] /\ MissingField(req'[r])) =>
                /\ req'[r].pc = "done" /\ req'[r].res.status = 400
                /\ req'[r].client = 0
                /\ conn' = conn /\ db' = db /\ storage' = storage]_vars

\* A request of kind k that lacks a field has been answered 400.
Refused(k) ==
    \E r \in Reqs : req[r].kind = k /\ MissingField(req[r]) /\ req[r].res.status = 400

\* A request without a required field was answered 400 on a project that
\* has a snapshot, a branch and a stored blob.
C25_Witness ==
    /\ \E k \in RollbackKinds : Refused(k)
    /\ db.snapshots # {} /\ db.branches # {} /\ DOMAIN storage # {}

(* C26: a deleteFile or deleteFolder on a branch for which no snapshot      *)
(* resolves (its row, if any, has no head and the project has no snapshot), *)
(* none of its statements being rejected, is answered 404 without having    *)
(* inserted a snapshot or changed the tables, and its client is back in     *)
(* the pool with no transaction left on it.                                 *)
C26_DeleteWithoutSnapshot ==
    \A r \in Reqs :
        (/\ req[r].kind \in DeleteKinds /\ req[r].pc = "done"
         /\ ~MissingField(req[r]) /\ req[r].error = "none"
         /\ Resolves(req[r].pre, req[r].branch) = {NULL}) =>
            /\ req[r].res.status = 404
            /\ req[r].newSnapshotId = NULL
            /\ db = req[r].pre
            /\ req[r].client \in Conns
            /\ conn[req[r].client] = IdleConn

\* A delete handler answered 404 on a project without snapshots whose
\* branch main has a row with a null head.
C26_Witness ==
    \E r \in Reqs :
        /\ req[r].kind \in DeleteKinds /\ req[r].pc = "done"
        /\ req[r].res.status = 404
        /\ req[r].currentSnapshotId = NULL /\ req[r].client \in Conns
        /\ db.snapshots = {}
        /\ \E b \in db.branches : b.name = req[r].branch /\ b.head_snapshot_id = NULL

\* The steps of a create handler in the order of the claim: read of the
\* current file set, upload, snapshot insert, file inserts, head update,
\* commit.
StepOrder ==
    <<"getFiles", "upload", "insertSnapshot", "insertFiles", "updateBranchHead", "COMMIT">>

StepNo(pc) == CHOOSE i \in DOMAIN StepOrder : StepOrder[i] = pc

\* The uncommitted writes w of request q are the snapshot row, then file
\* rows of that snapshot in the order of q.allFiles, then, after all of
\* them, at most one head update to that snapshot.
WritesInOrder(q, w) ==
    LET n == Len(w)
        hasHead == n > 0 /\ w[n].op = "setHead"
        nf == IF hasHead THEN n - 2 ELSE n - 1
    IN w # <<>> =>
          /\ w[1].op = "insSnapshot" /\ w[1].row.id = q.newSnapshotId
          /\ nf <= Len(q.allFiles)
          /\ \A i \in 2..(nf + 1) :
                /\ w[i].op = "insFile"
                /\ w[i].row = fileRow(q.newSnapshotId, q.allFiles[i - 1])
          /\ hasHead => /\ nf = Len(q.allFiles)
                        /\ w[n].name = q.branch
                        /\ w[n].head_snapshot_id = q.newSnapshotId

(* C27 (step ordering inside one mutation): every step of a createFile or   *)
(* createFolder request moves it forward in the order read, upload,         *)
(* snapshot insert, file inserts, head update, commit (or into its catch    *)
(* block); the blob store changes only by the upload step, after the read   *)
(* and before any write; the writes of its transaction are the snapshot     *)
(* row, then the file rows, then the head update, which names that snapshot *)
(* and comes after all its file rows; and the tables change only by COMMIT. *)
C27_StepOrdering ==
    [][\A r \in Reqs :
          (req[r].kind \in CreateKinds /\ req[r].client \in Conns
           /\ req[r].pc \notin {"connect", "done"}) =>
             LET q == req[r]
                 w == conn[q.client].w
                 from == {i \in DOMAIN StepOrder : StepOrder[i] = q.pc}
                 to == {i \in DOMAIN StepOrder : StepOrder[i] = req'[r].pc}
             IN /\ \A i \in from, j \in to : i < j \/ (i = j /\ q.pc = "insertFiles")
                /\ from # {} => to # {} \/ req'[r].pc \in {"catch", "done"}
                /\ storage' # storage =>
                      /\ q.pc = "upload" /\ w = <<>>
                      /\ q.currentSnapshotId # NULL =>
                            q.existingFiles = getFilesInSnapshot(db, q.currentSnapshotId)
                /\ WritesInOrder(q, w)
                /\ (q.pc \in {"BEGIN", "resolveBranch", "resolveLatest", "getFiles", "upload"})
                      => w = <<>>
                /\ q.pc = "COMMIT" =>
                      /\ Len(w) >= 1 + Len(q.allFiles)
                      /\ selectBranch(db, ProjectId, q.branch) # {} => w[Len(w)].op = "setHead"
                /\ db' # db => q.pc = "COMMIT" /\ req'[r].pc = "done"]_vars

\* A create handler is about to commit a head update that follows the
\* snapshot row and two file rows in its transaction.
C27_Witness ==
    \E r \in Reqs :
        /\ req[r].kind \in CreateKinds /\ req[r].pc = "COMMIT"
        /\ Len(conn[req[r].client].w) = 4
        /\ conn[req[r].client].w[4].op = "setHead"
        /\ conn[req[r].client].w[4].head_snapshot_id = req[r].newSnapshotId
        /\ storage # <<>>

\* The createOrGetUser requests that were answered, their fields being
\* valid and no statement of theirs rejected but for a unique violation.
UserAnswered ==
    {r \in Reqs : /\ req[r].kind = "createOrGetUser" /\ req[r].pc = "done"
                  /\ req[r].res.status # 400
                  /\ req[r].error \in {"none", "23505"}}

(* C28 (duplicate identity is a conflict): whatever way createOrGetUser     *)
(* requests interleave, no two user rows have one clerk_user_id; a request  *)
(* is answered 200 with the id of the row of its clerkUserId, or 409 where  *)
(* its INSERT met a row that another request created after it arrived, and *)
(* never 500; a request that arrives with the row present is answered 200   *)
(* with that row's id.                                                       *)
C28_DuplicateIdentity ==
    /\ \A u1, u2 \in db.users : u1.clerk_user_id = u2.clerk_user_id => u1 = u2
    /\ \A r \in UserAnswered :
          LET q == req[r]
              rows == selectUser(db, q.clerkUserId)
              before == selectUser(q.pre, q.clerkUserId)
          IN /\ q.res.status \in {200, 409}
             /\ q.res.status = 200 => \E u \in rows : q.res.body.userId = u.id
             /\ q.res.status = 409 => before = {} /\ rows # {} /\ q.error = "23505"
             /\ before # {} => q.res.status = 200

\* Two requests for one clerkUserId raced: one created the row and was
\* answered 200 with its id, the other found no row, lost the INSERT and was
\* answered 409.
C28_Witness ==
    \E r1, r2 \in Reqs :
        /\ r1 # r2
        /\ req[r1].kind = "createOrGetUser" /\ req[r2].kind = "createOrGetUser"
        /\ req[r1].pc = "done" /\ req[r2].pc = "done"
        /\ req[r1].clerkUserId = req[r2].clerkUserId
        /\ req[r1].res.status = 200 /\ req[r2].res.status = 409
        /\ \E u \in db.users : u.id = req[r1].res.body.userId
                                  /\ u.clerk_user_id = req[r2].clerkUserId

\* resolveSnapshotId returns to the handler of request r in this step.
Resolved(r) ==
    /\ req[r].pc \in ResolvePcs /\ req'[r].pc \notin ResolvePcs
    /\ req'[r].error = "none"

BranchWrites(w) == SelectSeq(w, LAMBDA x : x.op \in {"insBranch", "setHead"})

(* C30 (bulk createSnapshot leaves every branch row unchanged): no step of  *)
(* a bulk createSnapshot request changes the rows of branches, nor does its *)
(* transaction hold a write to branches; and a read of a branch whose head  *)
(* was non-null when the bulk upload arrived, the bulk upload being the     *)
(* last write before it, resolves that head.                                *)
C30_BulkLeavesBranches ==
    [][/\ \A r \in Reqs :
             (req[r].kind = "createSnapshot" /\ req[r].pc # "done") =>
                /\ db'.branches = db.branches
                /\ req[r].client \in Conns => BranchWrites(conn'[req[r].client].w) = <<>>
       /\ (/\ req[1].kind = "createSnapshot" /\ req[1].pc = "done"
           /\ req[2].kind \in {"getTree", "getBlob"}
           /\ HeadsOf(req[1].pre, req[2].branch) # {}
           /\ Resolved(2))
          => /\ db.branches = req[1].pre.branches
             /\ req'[2].currentSnapshotId \in HeadsOf(req[1].pre, req[2].branch)]_vars

\* After a bulk upload that is now the most recent snapshot of the project,
\* a read of main has resolved the head main had before, an older snapshot.
C30_Witness ==
    /\ req[1].kind = "createSnapshot" /\ req[1].pc = "done" /\ req[1].res.status = 201
    /\ req[2].kind \in {"getTree", "getBlob"} /\ req[2].pc = "done"
    /\ req[2].pre = db
    /\ MostRecent(db) = {req[1].newSnapshotId}
    /\ req[2].currentSnapshotId # req[1].newSnapshotId
    /\ req[2].currentSnapshotId \in HeadsOf(req[1].pre, req[2].branch)

\* The handlers of the claim about responses.
RespondingKinds ==
    MutationKinds \cup {"createSnapshot", "deleteSnapshot", "getBranches", "getTree",
                        "getBlob"}

(* C31 (every request gets exactly one response): a handler sends nothing   *)
(* before the step that ends it, and that step sends a response, whichever  *)
(* await was rejected (pool.connect, BEGIN, ROLLBACK and COMMIT included).  *)
C31_ExactlyOneResponse ==
    [][\A r \in Reqs :
          req[r].kind \in RespondingKinds =>
             /\ req[r].pc # "done" => req[r].res = NoRes
             /\ Answered(r) => req'[r].res.status # 0]_vars

(* C32 (no statements after release in bulk createSnapshot): a per-file     *)
(* task left over by a handler that has rolled back, answered 500 and       *)
(* released its client never issues its INSERT INTO snapshot_files: a task  *)
(* that outlived its handler stays where it is or ends with its upload.     *)
C32_NoStatementAfterRelease ==
    [][\A t \in stray : t.phase = "queued" => t \in stray']_vars

(* C33 (concurrent lazy branch creation): a getBranches request that found  *)
(* the project without branch rows when it arrived, and met no failure of   *)
(* the store other than what the other requests caused, is answered 200     *)
(* with the one branch main the project then has.                           *)
C33_ConcurrentLazyCreation ==
    \A r \in Reqs :
        LET q == req[r]
        IN (/\ q.kind = "getBranches" /\ q.pc = "done"
            /\ q.pre.branches = {}
            /\ q.error \in {"none", "23505"})
           => /\ q.res.status = 200
              /\ Cardinality(db.branches) = 1
              /\ \A b \in db.branches : b.project_id = ProjectId /\ b.name = "main"
              /\ q.res.body = db.branches

(* C34 (deleteSnapshot removes blobs only for a deletion that takes         *)
(* effect): once a deleteSnapshot request has finished, a snapshot it was   *)
(* asked to delete that still exists with its file rows still has the       *)
(* object of every one of these rows in the blob store.                     *)
C34_BlobsGoWithTheRow ==
    \A r \in Reqs :
        LET q == req[r]
        IN (/\ q.kind = "deleteSnapshot" /\ q.pc = "done"
            /\ \E s \in db.snapshots : s.id = q.id)
           => \A i \in DOMAIN FileRows(db, q.id) :
                 bulkKey(ProjectId, q.id, FileRows(db, q.id)[i].hash) \in DOMAIN storage

(* C35 (file_count is exact): the file_count of every committed snapshot    *)
(* is the number of committed file rows attached to it, whichever handler   *)
(* created it.                                                              *)
C35_FileCountExact ==
    \A s \in db.snapshots : s.file_count = Len(FileRows(db, s.id))

\* A snapshot of a mutation that counts more files than the one before it
\* and a bulk snapshot with two files are both committed.
C35_Witness ==
    /\ \E s1, s2 \in db.snapshots :
          /\ s1.file_count = 2 /\ s2.file_count = 1
          /\ Len(FileRows(db, s1.id)) = 2 /\ Len(FileRows(db, s2.id)) = 1
    /\ \E r \in Reqs :
          /\ req[r].kind \in MutationKinds /\ req[r].pc = "done"
          /\ req[r].res.status \in {200, 201}
          /\ Len(req[r].allFiles) # Len(req[r].existingFiles)

\* The pending rows of the token of request q.
PendingRows(t, q) ==
    {x \in selectCliAuthRequest(t, q.cliAuthToken) : x.status = "pending"}

(* C36 (CLI auth request status is one-way and single-shot): no step takes  *)
(* a row away, changes a completed row, or gives a row a status other than  *)
(* the one it has or completed; a completeCliAuthRequest is answered 200    *)
(* only in a step that turns the pending row of its token into a completed  *)
(* row with its clerk user id, user id and session token, so at most once   *)
(* per token; and a call that finds no pending row, a later or losing one,  *)
(* is answered 404 unless the store failed.                                 *)
C36_OneWaySingleShot ==
    [][/\ \A x \in db.cli_auth_requests :
             \E y \in db'.cli_auth_requests :
                 /\ y.id = x.id /\ y.cli_auth_token = x.cli_auth_token
                 /\ y.status \in {x.status, "completed"}
                 /\ x.status = "completed" => y = x
       /\ \A r \in Reqs :
             (req[r].kind = "completeCliAuthRequest" /\ Answered(r)) =>
                LET q == req'[r]
                IN /\ q.res.status = 200 =>
                         /\ PendingRows(db, q) # {}
                         /\ PendingRows(db', q) = {}
                         /\ \A x \in selectCliAuthRequest(db', q.cliAuthToken) :
                               /\ x.status = "completed"
                               /\ x.clerk_user_id = q.clerkUserId
                               /\ x.convex_user_id = q.pgUserId
                               /\ x.clerk_session_token = q.clerkSessionToken
                               /\ q.res.body = x
                   /\ (PendingRows(db, q) = {} /\ q.error = "none") =>
                         q.res.status = 404]_vars

\* One call completed the request and another, with another session token,
\* was answered 404; the row holds what the first call stored.
C36_Witness ==
    \E r1, r2 \in Reqs :
        /\ req[r1].kind = "completeCliAuthRequest" /\ req[r1].pc = "done"
        /\ req[r2].kind = "completeCliAuthRequest" /\ req[r2].pc = "done"
        /\ req[r1].res.status = 200 /\ req[r2].res.status = 404
        /\ req[r1].cliAuthToken = req[r2].cliAuthToken
        /\ req[r1].clerkSessionToken # req[r2].clerkSessionToken
        /\ req[r1].res.body \in db.cli_auth_requests

(* C37 (createCliAuthRequest is idempotent per token): at most one row      *)
(* exists for a token; no createCliAuthRequest is answered 500 because of   *)
(* a duplicate token; a call answered 200 carries the id of the row of its  *)
(* token; and a valid call that arrived when the row was there is answered  *)
(* 200 with that row's id unless the store failed.                          *)
C37_IdempotentPerToken ==
    /\ \A x, y \in db.cli_auth_requests : x.cli_auth_token = y.cli_auth_token => x = y
    /\ \A r \in Reqs :
          LET q == req[r]
          IN (q.kind = "createCliAuthRequest" /\ q.pc = "done") =>
                /\ q.error # "23505"
                /\ q.res.status = 200 =>
                      \E x \in selectCliAuthRequest(db, q.cliAuthToken) :
                          q.res.body = [id |-> x.id]
                /\ (/\ selectCliAuthRequest(q.pre, q.cliAuthToken) # {}
                    /\ ~Falsy(q.createdAt) /\ q.error = "none") =>
                      /\ q.res.status = 200
                      /\ \E x \in selectCliAuthRequest(q.pre, q.cliAuthToken) :
                            q.res.body = [id |-> x.id]


====
